---- MODULE Spec2Model ----
(***************************************************************************)
(* A model of src/visualizer.cpp: the capture engine (AudioProcessor), its *)
(* ring buffer and analyzers, the control handler and the main control     *)
(* loop of VisualizerApp (the power state coordinator).                    *)
(*                                                                         *)
(* Time is counted in ticks of 1/TicksPerSec second.  Samples are kept as  *)
(* their signed 16-bit numerators: the code stores s / 32768.0f, which is  *)
(* exact in a float, so the numerator stands for the stored value.         *)
(***************************************************************************)
EXTENDS Integers, Sequences, FiniteSets, TLC

(***************************************************************************)
(* Bounds of the model.                                                    *)
(***************************************************************************)
\* clock resolution: ticks per second of the steady clock
TicksPerSec == 2
\* the clock stops advancing after this many seconds
MaxSeconds == 12
\* number of visualizations cycled by rotary button 1 (6 in the source)
NUM_VISUALIZATIONS == 2
\* sleeping iterations between two control-only polls (10 in the source)
SLEEP_POLL_PERIOD == 2
\* log2 of FFT_SIZE_BASS (13 in the source: FFT_SIZE_BASS = 8192)
FFT_SIZE_LOG2 == 1
\* frames asked of the hardware per read while awake (2048 in the source)
FRAMES_PER_BUFFER == 2
\* frames asked of the hardware per read while asleep (256 in the source)
SLEEP_FRAMES == 1
\* window of getStereoAnalysis (512 in the source)
ANALYSIS_SAMPLES == 3
\* the samples of the stereo model are multiples of 1/STEREO_DEN
STEREO_DEN == 16
\* significant bits of a float (24 in the build)
MANTISSA_BITS == 6
\* width of size_t in bits (32 or 64 in a build)
SIZE_T_BITS == 16
\* the hardware stream ends after this many frames
MaxFrames == 8
\* total number of frames the hardware delivers in the model of the levels
MaxSensedFrames == 3
\* levels are counted in units of 1/LEVEL_DEN: fine enough for the slowest
\* decay (1 % of the level per call) to go on below level 1
LEVEL_DEN == 128
\* getSpectrumData is called at most this many times
MaxCalls == 1

(***************************************************************************)
(* Program constants.                                                      *)
(***************************************************************************)
SLEEP_TIMEOUT_SEC == 10

MaxTime == MaxSeconds * TicksPerSec
\* the 11 seconds of silence of the sleep scenario, in ticks
LongSilence == (SLEEP_TIMEOUT_SEC + 1) * TicksPerSec

\* SILENCE_THRESHOLD = 0.001f, as numerator and denominator
SILENCE_THRESHOLD_NUM == 1
SILENCE_THRESHOLD_DEN == 1000
SAMPLE_DEN == 32768
SENSITIVITY_DEFAULT == 100
NOISE_REDUCTION_DEFAULT == 77
SENSITIVITY_MIN == 10
SENSITIVITY_MAX == 300
NOISE_REDUCTION_MIN == 0
NOISE_REDUCTION_MAX == 100
SENSITIVITY_STEP == 10
NOISE_REDUCTION_STEP == 5
\* the length of the transform (FFT_SIZE_BASS of the source, not scaled down)
FFT_SIZE == 8192
SAMPLE_RATE == 44100
\* the tone: its frequency, and the cube root of the constant of the Hann
\* kernel at its position, 8192 / 4 * sin(pi * 0.2404) / pi * 1000^3
Tone == [hz |-> 1000, kernel_root |-> 7645]
\* denominators of the tone model
POSITION_DEN == 1000
AMPLITUDE_DEN == 100000
MAGNITUDE_DEN == 100
\* the square root of the base of the two-word powers
WIDE_ROOT == 1000
\* largest magnitude of a bin: the sum of the Hann window over FFT_SIZE_BASS
\* = 8192 samples, each sample below 1 in absolute value
MaxMagnitude == 4096

VARIABLES
    now,               \* std::chrono::steady_clock::now(), in ticks
    last_audio_time,   \* AudioProcessor::last_audio_time, in ticks
    max_amplitude,     \* AudioProcessor::max_amplitude, as a sample numerator
    thread_running,    \* AudioProcessor::thread_running
    audio_is_sleeping, \* AudioProcessor::is_sleeping
    mpd_is_sleeping,   \* MPDClient::is_sleeping
    sensitivity,       \* AudioProcessor::sensitivity
    noise_reduction,   \* AudioProcessor::noise_reduction
    state,             \* ControlState: running, current_viz, is_sleeping
    current_viz,       \* the local current_viz of VisualizerApp::run
    sleep_counter,     \* the static sleep_counter of VisualizerApp::run
    main_pc,           \* where the main thread is: "loop" or "stopped"
    main_ran,          \* the control loop has iterated since the last tick
    obs,               \* what the last control-loop iteration did (history)
    since_loud,        \* what happened since last_audio_time was refreshed (history)
    \* the ring buffer and the threads that use it
    circular_buffer_left,  \* AudioProcessor::circular_buffer_left
    circular_buffer_right, \* AudioProcessor::circular_buffer_right
    write_pos,         \* AudioProcessor::write_pos
    buffer_mutex,      \* AudioProcessor::buffer_mutex: the set of threads inside it
    capture_pc,        \* where the capture thread is in audioThreadFunc
    audio_buffer,      \* the frames of the last read (audio_buffer[0 .. frames))
    pos,               \* the local pos of the write loop
    frame_i,           \* the index i of the write loop
    hw_next,           \* number of frames the hardware has delivered so far
    reader_pc,         \* where the main thread is in a snapshot call
    reader_req,        \* the snapshot call in progress: kind, samples, left_channel
    out,               \* what the last snapshot call copied out
    written,           \* every frame written to the ring, in order (history)
    committed,         \* the ring as the last completed capture iteration left it (history)
    \* the spectrum analyser
    prev_left_spectrum,  \* AudioProcessor::prev_left_spectrum, in 1/LEVEL_DEN
    prev_right_spectrum, \* AudioProcessor::prev_right_spectrum, in 1/LEVEL_DEN
    left_out,          \* the left_out array of the last getSpectrumData call
    right_out,         \* the right_out array of the last getSpectrumData call
    spectrum_calls,    \* number of getSpectrumData calls so far
    spectrum_polled,   \* a poll has changed a parameter since the last call
    \* the stereo analyser
    stereo             \* the last getStereoAnalysis call: its window and results

powerVars == <<now, last_audio_time, max_amplitude, thread_running,
               audio_is_sleeping, mpd_is_sleeping, sensitivity, noise_reduction,
               state, current_viz, sleep_counter, main_pc, main_ran, obs, since_loud>>

ringVars == <<circular_buffer_left, circular_buffer_right, write_pos, buffer_mutex,
              capture_pc, audio_buffer, pos, frame_i, hw_next, reader_pc,
              reader_req, out, written, committed>>

spectrumVars == <<prev_left_spectrum, prev_right_spectrum, left_out, right_out,
                  spectrum_calls, spectrum_polled>>

stereoVars == <<stereo>>

VARIABLES
    time_access         \* the accesses of last_audio_time in progress: writer (the capture
                        \* thread is inside its store), reader (the main thread is inside
                        \* checkForAudio, past its clock read t), raced (the store and the
                        \* read overlapped), has_audio (what checkForAudio returned last)

accessVars == <<time_access>>

VARIABLES
    conn,               \* MPDClient::conn: "null", "open", or "broken" (the peer is gone)
    mpd_thread_running, \* MPDClient::thread_running
    shutdown_requested, \* MPDClient::shutdown_requested
    conn_mutex,         \* MPDClient::conn_mutex: "none" or the thread that locked it
    data_mutex,         \* MPDClient::data_mutex: "none" or the thread that locked it
    track_number,       \* MPDClient::track_number
    title,              \* MPDClient::title
    artist,             \* MPDClient::artist
    year,               \* MPDClient::year
    formatted_text,     \* MPDClient::formatted_text
    mpd_pc,             \* position of the MPD thread in mpdThreadFunc
    mpd_ret,            \* where updateCurrentSong returns to
    song,               \* updateCurrentSong: the local song
    delay_i,            \* mpdThreadFunc: i of the reconnect delay loop
    select_elapsed,     \* ticks spent in select() so far
    select_ret,         \* mpdThreadFunc: ret of select()
    service_up,         \* the MPD service accepts connections and answers
    service_song,       \* the current song of the service
    event_pending,      \* the service has a player event for the client
    mpdmain_pc,         \* position of the controlling thread in its MPDClient call
    get_field,          \* the getter the controlling thread is in
    text_out,           \* the value the getter returns
    connected_out,      \* the value isConnected returns
    fetched,            \* history: updateCurrentSong has stored a fetched record
    last_fetch,         \* history: the song of the last stored fetch
    net,                \* history: the latest call of the MPD thread on the
                        \* network, "woke" once it has left the sleep poll since,
                        \* "delayed" or "delay_cut" once it has left the reconnect
                        \* delay after all its rounds or before,
                        \* and whether an idle request is outstanding
    mpd_held,           \* history: mutexes the MPD thread locked, in order
    main_held           \* history: mutexes the controlling thread locked, in order

mpdVars == <<conn, mpd_thread_running, shutdown_requested, conn_mutex, data_mutex,
             track_number, title, artist, year, formatted_text, mpd_pc, mpd_ret,
             song, delay_i, select_elapsed, select_ret, service_up, service_song,
             event_pending, mpdmain_pc, get_field, text_out, connected_out,
             fetched, last_fetch, net, mpd_held, main_held>>

VARIABLES
    pcm_handle,         \* AudioProcessor::pcm_handle: "null", "open", or "closed"
                        \* (closed and still pointing at the freed handle)
    reads_after_stop,   \* history: reads issued after stop() cleared thread_running
    last_read,          \* history: how the latest read ended: "none", "failed", "block"
    handle_log          \* history: how start() ended, handles opened, calls of snd_pcm_close

handleVars == <<pcm_handle, reads_after_stop, last_read, handle_log>>

VARIABLES
    factors             \* AudioProcessor::integral_factor, gravity_factor, scale_factor

parameterVars == <<factors>>

vars == <<powerVars, ringVars, spectrumVars, stereoVars, accessVars, mpdVars, handleVars,
          parameterVars>>

Min(a, b) == IF a < b THEN a ELSE b
Max(a, b) == IF a > b THEN a ELSE b
Abs(a) == IF a < 0 THEN -a ELSE a
\* C++ integer division and duration_cast: truncation toward zero
TruncDiv(a, b) == IF a >= 0 THEN a \div b ELSE -((-a) \div b)
\* a history counter that saturates at 2
Cap2(n) == Min(n, 2)
\* x * n / d truncated, for x, n >= 0, without leaving 32 bits on the way
MulDiv(x, n, d) == (x \div d) * n + ((x % d) * n) \div d

(***************************************************************************)
(* AudioProcessor: sleep detection.                                        *)
(***************************************************************************)
\* duration_cast<seconds>(now - last_audio_time).count()
ElapsedSecondsHalfUp(t, last) == TruncDiv(2 * (t - last) + TicksPerSec, 2 * TicksPerSec)
ElapsedSeconds(t, last) == TruncDiv(t - last, TicksPerSec)

\* AudioProcessor::checkForAudio
checkForAudio(t, last) == ElapsedSeconds(t, last) < SLEEP_TIMEOUT_SEC

\* frame_max of a block: the largest |sample| over both channels
RECURSIVE FrameMax(_)
FrameMax(block) ==
    IF block = <<>> THEN 0
    ELSE Max(Max(Abs(block[1][1]), Abs(block[1][2])), FrameMax(Tail(block)))

\* frame_max > SILENCE_THRESHOLD, with frame_max = peak / 32768
AboveThreshold(peak) == peak * SILENCE_THRESHOLD_DEN > SILENCE_THRESHOLD_NUM * SAMPLE_DEN

\* the blocks the hardware delivers in the power model: an empty read, a
\* block peaking just at or below the threshold, a block peaking just above
PowerBlocks == { <<>>, << <<0, 0>> >>, << <<32, -32>> >>, << <<-33, 5>> >> }

\* "max_amplitude = frame_max; if (frame_max > SILENCE_THRESHOLD)
\* last_audio_time = now()": the end of both branches of an iteration
SenseBlockAwakeOnly(peak) ==
    /\ max_amplitude' = peak
    /\ IF AboveThreshold(peak) /\ ~audio_is_sleeping
       THEN last_audio_time' = now /\ UNCHANGED since_loud
       ELSE UNCHANGED <<last_audio_time, since_loud>>
SenseBlock(peak) ==
    /\ max_amplitude' = peak
    /\ IF AboveThreshold(peak)
       THEN /\ last_audio_time' = now
            /\ since_loud' = [asleep_at_loud |-> state.is_sleeping,
                              after_long_silence |->
                                  now - last_audio_time >= LongSilence,
                              watched |-> main_pc = "loop",
                              sleeps |-> 0, wakes |-> 0, iters |-> 0]
       ELSE UNCHANGED <<last_audio_time, since_loud>>

(***************************************************************************)
(* The sleep-detection part of one iteration of audioThreadFunc: the read, *)
(* the peak of the block, max_amplitude and last_audio_time.  Both the     *)
(* Awake branch and the Asleep branch end with the same two updates.  The  *)
(* ring buffer writes of the Awake branch are modelled by the capture      *)
(* steps of SpecRing.                                                      *)
(***************************************************************************)
CaptureSense ==
    /\ thread_running
    /\ \E ok \in BOOLEAN, block \in PowerBlocks :
         IF ~ok
         THEN \* snd_pcm_readi and snd_pcm_recover both failed: continue
              UNCHANGED <<max_amplitude, last_audio_time, since_loud>>
         ELSE SenseBlock(FrameMax(block))
    /\ UNCHANGED <<now, thread_running, audio_is_sleeping, mpd_is_sleeping,
                   sensitivity, noise_reduction, state, current_viz,
                   sleep_counter, main_pc, main_ran, obs>>
    /\ UNCHANGED <<ringVars, spectrumVars, stereoVars, accessVars, mpdVars, handleVars, parameterVars>>

(***************************************************************************)
(* The ring buffer: circular_buffer_left/right and write_pos, written by   *)
(* the capture thread and copied out by the main thread's snapshot calls,  *)
(* all under buffer_mutex.  The hardware delivers frame number k as the    *)
(* pair <<k, -k>>, so that every frame of the stream is told apart from    *)
(* the others and from the zeros the arrays start with.                    *)
(***************************************************************************)
FFT_SIZE_BASS == 2 ^ FFT_SIZE_LOG2
\* the capacity of the ring: FFT_SIZE_BASS * 2
Capacity == FFT_SIZE_BASS * 2
\* size_t arithmetic is modulo 2^SIZE_T_BITS
SizeTMod == 2 ^ SIZE_T_BITS
\* the largest sample count a waveform snapshot is asked for
MaxSamples == Capacity + 2

Slots == 0 .. (Capacity - 1)

\* frames number first+1 .. first+n of the hardware stream
HwBlock(first, n) == [k \in 1 .. n |-> <<first + k, -(first + k)>>]

\* std::lock_guard<std::mutex> lock(buffer_mutex): thread t may enter
MayLockUnguarded(t) == TRUE
MayLock(t) == buffer_mutex = {}

\* pos = (pos + 1) % (FFT_SIZE_BASS * 2)
NextPosHalfBuffer(p) == (p + 1) % FFT_SIZE_BASS
NextPos(p) == (p + 1) % Capacity

\* the ring as a record, for the history variable
Ring == [left |-> circular_buffer_left, right |-> circular_buffer_right,
         write_pos |-> write_pos]

\* top of the loop: while (thread_running), frames_to_read, snd_pcm_readi
\* and snd_pcm_recover.  frames < 0: the read and the recovery both failed.
CaptureRead ==
    /\ capture_pc = "read"
    /\ thread_running
    /\ \E frames \in (-1) .. (IF audio_is_sleeping THEN SLEEP_FRAMES
                                                   ELSE FRAMES_PER_BUFFER) :
         IF frames < 0
         THEN /\ last_read' = "failed"
              /\ UNCHANGED <<capture_pc, audio_buffer, hw_next>>
         ELSE /\ hw_next + frames <= MaxFrames
              /\ audio_buffer' = HwBlock(hw_next, frames)
              /\ hw_next' = hw_next + frames
              /\ last_read' = "block"
              /\ capture_pc' = "branch"
    /\ UNCHANGED <<circular_buffer_left, circular_buffer_right, write_pos,
                   buffer_mutex, pos, frame_i, reader_pc, reader_req, out,
                   written, committed>>
    /\ UNCHANGED <<powerVars, spectrumVars, stereoVars, accessVars, mpdVars, pcm_handle,
                   reads_after_stop, handle_log, parameterVars>>

\* the loop condition fails: delete[] audio_buffer, the thread ends
CaptureExit ==
    /\ capture_pc = "read"
    /\ ~thread_running
    /\ capture_pc' = "done"
    /\ UNCHANGED <<circular_buffer_left, circular_buffer_right, write_pos,
                   buffer_mutex, audio_buffer, pos, frame_i, hw_next, reader_pc,
                   reader_req, out, written, committed>>
    /\ UNCHANGED <<powerVars, spectrumVars, stereoVars, accessVars, mpdVars, handleVars, parameterVars>>

\* while (thread_running), taken apart from the read that follows it
CaptureLoopTest ==
    /\ capture_pc = "read"
    /\ thread_running
    /\ capture_pc' = "readi"
    /\ UNCHANGED <<circular_buffer_left, circular_buffer_right, write_pos,
                   buffer_mutex, audio_buffer, pos, frame_i, hw_next, reader_pc,
                   reader_req, out, written, committed>>
    /\ UNCHANGED <<powerVars, spectrumVars, stereoVars, accessVars, mpdVars, handleVars, parameterVars>>

\* frames_to_read = is_sleeping ? 256 : FRAMES_PER_BUFFER
frames_to_read == IF audio_is_sleeping THEN SLEEP_FRAMES ELSE FRAMES_PER_BUFFER

\* if (frames < 0) continue: back to the top of the loop
ReadFailsWithoutContinue ==
    /\ capture_pc' = "branch"
    /\ last_read' = "failed"
    /\ audio_buffer' = <<>>
    /\ UNCHANGED hw_next
ReadFails ==
    /\ capture_pc' = "read"
    /\ last_read' = "failed"
    /\ UNCHANGED <<audio_buffer, hw_next>>

\* snd_pcm_readi and snd_pcm_recover on pcm_handle, and the continue when
\* both have failed (frames < 0); a read that succeeds delivers one of blocks,
\* of at most limit frames in all
CaptureReadiFrom(blocks, limit) ==
    /\ capture_pc = "readi"
    /\ \/ ReadFails
       \/ \E block \in blocks :
             /\ Len(block) <= frames_to_read
             /\ hw_next + Len(block) <= limit
             /\ audio_buffer' = block
             /\ hw_next' = hw_next + Len(block)
             /\ last_read' = "block"
             /\ capture_pc' = "branch"
    /\ reads_after_stop' = IF thread_running THEN reads_after_stop
                           ELSE Min(reads_after_stop + 1, 2)
    /\ UNCHANGED <<circular_buffer_left, circular_buffer_right, write_pos,
                   buffer_mutex, pos, frame_i, reader_pc, reader_req, out,
                   written, committed>>
    /\ UNCHANGED <<powerVars, spectrumVars, stereoVars, accessVars, mpdVars, pcm_handle,
                   handle_log, parameterVars>>

\* the read of the stream of numbered frames
CaptureReadi ==
    CaptureReadiFrom({HwBlock(hw_next, frames) : frames \in 0 .. frames_to_read},
                     MaxFrames)

\* the read of blocks that peak around the silence threshold
CaptureReadiLevels == CaptureReadiFrom(PowerBlocks, MaxSensedFrames)

\* if (is_sleeping): only the peak of the block, then continue
CaptureBranch ==
    /\ capture_pc = "branch"
    /\ IF audio_is_sleeping
       THEN /\ SenseBlock(FrameMax(audio_buffer))
            /\ capture_pc' = "read"
       ELSE /\ capture_pc' = "lock"
            /\ UNCHANGED <<max_amplitude, last_audio_time, since_loud>>
    /\ UNCHANGED <<now, thread_running, audio_is_sleeping, mpd_is_sleeping,
                   sensitivity, noise_reduction, state, current_viz,
                   sleep_counter, main_pc, main_ran, obs>>
    /\ UNCHANGED <<circular_buffer_left, circular_buffer_right, write_pos,
                   buffer_mutex, audio_buffer, pos, frame_i, hw_next, reader_pc,
                   reader_req, out, written, committed>>
    /\ UNCHANGED <<spectrumVars, stereoVars, accessVars, mpdVars, handleVars, parameterVars>>

\* std::lock_guard lock(buffer_mutex); size_t pos = write_pos
CaptureLock ==
    /\ capture_pc = "lock"
    /\ MayLock("capture")
    /\ buffer_mutex' = buffer_mutex \cup {"capture"}
    /\ pos' = write_pos
    /\ frame_i' = 0
    /\ capture_pc' = "write"
    /\ UNCHANGED <<circular_buffer_left, circular_buffer_right, write_pos,
                   audio_buffer, hw_next, reader_pc, reader_req, out, written,
                   committed>>
    /\ UNCHANGED <<powerVars, spectrumVars, stereoVars, accessVars, mpdVars, handleVars, parameterVars>>

\* one pass of the write loop: store frame i at pos, advance pos
CaptureWrite ==
    /\ capture_pc = "write"
    /\ frame_i < Len(audio_buffer)
    /\ circular_buffer_left' =
           [circular_buffer_left EXCEPT ![pos] = audio_buffer[frame_i + 1][1]]
    /\ circular_buffer_right' =
           [circular_buffer_right EXCEPT ![pos] = audio_buffer[frame_i + 1][2]]
    /\ pos' = NextPos(pos)
    /\ frame_i' = frame_i + 1
    /\ written' = Append(written, audio_buffer[frame_i + 1])
    /\ UNCHANGED <<write_pos, buffer_mutex, capture_pc, audio_buffer, hw_next,
                   reader_pc, reader_req, out, committed>>
    /\ UNCHANGED <<powerVars, spectrumVars, stereoVars, accessVars, mpdVars, handleVars, parameterVars>>

\* the loop is over: write_pos = pos
CaptureCommit ==
    /\ capture_pc = "write"
    /\ frame_i >= Len(audio_buffer)
    /\ write_pos' = pos
    /\ capture_pc' = "sense"
    /\ UNCHANGED <<circular_buffer_left, circular_buffer_right, buffer_mutex,
                   audio_buffer, pos, frame_i, hw_next, reader_pc, reader_req,
                   out, written, committed>>
    /\ UNCHANGED <<powerVars, spectrumVars, stereoVars, accessVars, mpdVars, handleVars, parameterVars>>

\* max_amplitude and last_audio_time, then the end of the loop body, where
\* the lock_guard releases buffer_mutex
CaptureSenseAwake ==
    /\ capture_pc = "sense"
    /\ SenseBlock(FrameMax(audio_buffer))
    /\ buffer_mutex' = buffer_mutex \ {"capture"}
    /\ committed' = Ring
    /\ capture_pc' = "read"
    /\ UNCHANGED <<now, thread_running, audio_is_sleeping, mpd_is_sleeping,
                   sensitivity, noise_reduction, state, current_viz,
                   sleep_counter, main_pc, main_ran, obs>>
    /\ UNCHANGED <<circular_buffer_left, circular_buffer_right, write_pos,
                   audio_buffer, pos, frame_i, hw_next, reader_pc, reader_req,
                   out, written>>
    /\ UNCHANGED <<spectrumVars, stereoVars, accessVars, mpdVars, handleVars, parameterVars>>

(***************************************************************************)
(* The snapshot calls of the main thread: getSpectrumData,                 *)
(* getWaveformData and getStereoAnalysis.  Each takes buffer_mutex, copies *)
(* a window that ends at write_pos and releases the mutex.                 *)
(***************************************************************************)
NoRequest == [kind |-> "none", samples |-> 0, left_channel |-> TRUE]
NoOut == [req |-> NoRequest, slots |-> <<>>, left |-> <<>>, right |-> <<>>,
          at |-> 0]

\* the calls the renderers can make, and getWaveformData with any count
Requests ==
    {[kind |-> "spectrum", samples |-> FFT_SIZE_BASS, left_channel |-> TRUE],
     [kind |-> "stereo", samples |-> ANALYSIS_SAMPLES, left_channel |-> TRUE]}
    \cup [kind : {"waveform"}, samples : 0 .. MaxSamples, left_channel : BOOLEAN]

\* size_t read_pos = (write_pos + FFT_SIZE_BASS * 2 - samples)
\*                   % (FFT_SIZE_BASS * 2), in size_t arithmetic
ReadPosAtWritePos(wp, samples) == wp % Capacity
ReadPos(wp, samples) == ((wp + Capacity - samples) % SizeTMod) % Capacity

\* the slots the copy loop visits: samples of them, from read_pos on
RECURSIVE SnapshotSlots(_, _)
SnapshotSlots(read_pos, samples) ==
    IF samples <= 0 THEN <<>>
    ELSE <<read_pos>> \o SnapshotSlots(NextPos(read_pos), samples - 1)

\* what the copy loop of a call stores in its output arrays
Snapshot(req) ==
    LET slots == SnapshotSlots(ReadPos(write_pos, req.samples), req.samples)
        both == req.kind # "waveform"
    IN  [req |-> req,
         slots |-> slots,
         left |-> IF both \/ req.left_channel
                  THEN [i \in DOMAIN slots |-> circular_buffer_left[slots[i]]]
                  ELSE <<>>,
         right |-> IF both \/ ~req.left_channel
                   THEN [i \in DOMAIN slots |-> circular_buffer_right[slots[i]]]
                   ELSE <<>>,
         at |-> Len(written)]

\* a call starts: std::lock_guard lock(buffer_mutex)
ReaderLock ==
    /\ reader_pc = "idle"
    /\ main_pc = "loop"
    /\ MayLock("main")
    /\ \E req \in Requests : reader_req' = req
    /\ buffer_mutex' = buffer_mutex \cup {"main"}
    /\ out' = NoOut
    /\ reader_pc' = "copy"
    /\ UNCHANGED <<circular_buffer_left, circular_buffer_right, write_pos,
                   capture_pc, audio_buffer, pos, frame_i, hw_next, written,
                   committed>>
    /\ UNCHANGED <<powerVars, spectrumVars, stereoVars, accessVars, mpdVars, handleVars, parameterVars>>

\* read_pos and the copy loop
ReaderCopy ==
    /\ reader_pc = "copy"
    /\ out' = Snapshot(reader_req)
    /\ reader_pc' = "unlock"
    /\ UNCHANGED <<circular_buffer_left, circular_buffer_right, write_pos,
                   buffer_mutex, capture_pc, audio_buffer, pos, frame_i,
                   hw_next, reader_req, written, committed>>
    /\ UNCHANGED <<powerVars, spectrumVars, stereoVars, accessVars, mpdVars, handleVars, parameterVars>>

\* the lock_guard goes out of scope and the call returns; its arguments and
\* its output belong to the caller from here on
ReaderUnlock ==
    /\ reader_pc = "unlock"
    /\ buffer_mutex' = buffer_mutex \ {"main"}
    /\ reader_pc' = "idle"
    /\ reader_req' = NoRequest
    /\ out' = NoOut
    /\ UNCHANGED <<circular_buffer_left, circular_buffer_right, write_pos,
                   capture_pc, audio_buffer, pos, frame_i, hw_next, written,
                   committed>>
    /\ UNCHANGED <<powerVars, spectrumVars, stereoVars, accessVars, mpdVars, handleVars, parameterVars>>

\* AudioProcessor::setSleepState, called by the main thread between calls
SetSleepState ==
    /\ reader_pc = "idle"
    /\ main_pc = "loop"
    /\ \E sleeping \in BOOLEAN : audio_is_sleeping' = sleeping
    /\ UNCHANGED <<now, last_audio_time, max_amplitude, thread_running,
                   mpd_is_sleeping, sensitivity, noise_reduction, state,
                   current_viz, sleep_counter, main_pc, main_ran, obs,
                   since_loud>>
    /\ UNCHANGED <<ringVars, spectrumVars, stereoVars, accessVars, mpdVars, handleVars, parameterVars>>

\* AudioProcessor::stop up to the join: thread_running = false
StopRequest ==
    /\ reader_pc = "idle"
    /\ main_pc = "loop"
    /\ thread_running
    /\ thread_running' = FALSE
    /\ main_pc' = "stopped"
    /\ UNCHANGED <<now, last_audio_time, max_amplitude, audio_is_sleeping,
                   mpd_is_sleeping, sensitivity, noise_reduction, state,
                   current_viz, sleep_counter, main_ran, obs, since_loud>>
    /\ UNCHANGED <<ringVars, spectrumVars, stereoVars, accessVars, mpdVars, handleVars, parameterVars>>

\* if (pcm_handle) snd_pcm_close(pcm_handle): the log after it
Closed(handle) ==
    IF handle = "null" THEN handle_log
    ELSE [handle_log EXCEPT !.closes = Min(@ + 1, 2)]

\* AudioProcessor::stop: audio_thread.join() returns when the thread has ended
JoinedBeforeCloseSkipped == main_pc \in {"stopped", "joined"}
JoinedBeforeClose == main_pc = "joined"
AudioStopJoin ==
    /\ main_pc = "stopped"
    /\ capture_pc = "done"
    /\ main_pc' = "joined"
    /\ UNCHANGED <<now, last_audio_time, max_amplitude, thread_running,
                   audio_is_sleeping, mpd_is_sleeping, sensitivity, noise_reduction,
                   state, current_viz, sleep_counter, main_ran, obs, since_loud>>
    /\ UNCHANGED <<ringVars, spectrumVars, stereoVars, accessVars, mpdVars, handleVars, parameterVars>>

\* AudioProcessor::stop: if (pcm_handle) { snd_pcm_close; pcm_handle = nullptr; }
AudioStopClose ==
    /\ JoinedBeforeClose
    /\ main_pc' = "closed"
    /\ handle_log' = Closed(pcm_handle)
    /\ pcm_handle' = "null"
    /\ UNCHANGED <<now, last_audio_time, max_amplitude, thread_running,
                   audio_is_sleeping, mpd_is_sleeping, sensitivity, noise_reduction,
                   state, current_viz, sleep_counter, main_ran, obs, since_loud>>
    /\ UNCHANGED <<ringVars, spectrumVars, stereoVars, accessVars, mpdVars, reads_after_stop, last_read, parameterVars>>

\* ~AudioProcessor when start() has failed or stop() has returned: stop()
\* finds thread_running false and closes the handle if it is not null.
\* snd_pcm_close of a handle that is closed already is undefined: the
\* destructor goes on or the process ends there.
AudioDestroy ==
    /\ \/ main_pc = "closed"
       \/ main_pc = "stopped" /\ handle_log.start = "failed"
    /\ main_pc' \in (IF pcm_handle = "closed" THEN {"destroyed", "crashed"}
                                               ELSE {"destroyed"})
    /\ handle_log' = Closed(pcm_handle)
    /\ pcm_handle' = "null"
    /\ UNCHANGED <<now, last_audio_time, max_amplitude, thread_running,
                   audio_is_sleeping, mpd_is_sleeping, sensitivity, noise_reduction,
                   state, current_viz, sleep_counter, main_ran, obs, since_loud>>
    /\ UNCHANGED <<ringVars, spectrumVars, stereoVars, accessVars, mpdVars, reads_after_stop, last_read, parameterVars>>

\* the handle after the constructor, and after start() where the model
\* begins with the thread started
InitHandle ==
    /\ pcm_handle = IF main_pc = "start" THEN "null" ELSE "open"
    /\ handle_log = IF main_pc = "start"
                    THEN [start |-> "none", opens |-> 0, closes |-> 0]
                    ELSE [start |-> "ok", opens |-> 1, closes |-> 0]
    /\ reads_after_stop = 0
    /\ last_read = "none"

\* the ring as the constructor leaves it: zeros, write_pos 0, nobody inside
InitRing ==
    /\ circular_buffer_left = [s \in Slots |-> 0]
    /\ circular_buffer_right = [s \in Slots |-> 0]
    /\ write_pos = 0
    /\ buffer_mutex = {}
    /\ capture_pc = "read"
    /\ audio_buffer = <<>>
    /\ pos = 0
    /\ frame_i = 0
    /\ hw_next = 0
    /\ reader_pc = "idle"
    /\ reader_req = NoRequest
    /\ out = NoOut
    /\ written = <<>>
    /\ committed = [left |-> [s \in Slots |-> 0], right |-> [s \in Slots |-> 0],
                    write_pos |-> 0]

(***************************************************************************)
(* AudioProcessor::getStereoAnalysis.  The window holds samples that are   *)
(* multiples of 1/STEREO_DEN; sums of samples are counted in 1/STEREO_DEN, *)
(* sums of products in 1/STEREO_DEN^2.  Every float operation rounds its   *)
(* exact result to MANTISSA_BITS significant bits (Fl).  As in the build,  *)
(* where 512 samples of 16 bits add up exactly in 24 bits while their      *)
(* squares do not, the sums of samples are exact here and the sums of      *)
(* squares are not.  Angles are in degrees, the phase in 1/1000 degree, the            *)
(* correlation in 1/1000.                                                  *)
(***************************************************************************)
RECURSIVE BitLen(_)
BitLen(x) == IF x = 0 THEN 0 ELSE 1 + BitLen(x \div 2)

\* the float nearest to x (ties to even), the exponent range left aside
Fl(x) ==
    LET a == Abs(x)
        e == BitLen(a) - MANTISSA_BITS
    IN  IF e <= 0 THEN x
        ELSE LET u == 2 ^ e
                 q == a \div u
                 r == a % u
                 m == IF r * 2 > u \/ (r * 2 = u /\ q % 2 = 1)
                      THEN (q + 1) * u ELSE q * u
             IN  IF x < 0 THEN -m ELSE m

\* sum += terms[1]; ...; sum += terms[k]
RECURSIVE Accumulate(_, _)
Accumulate(terms, k) ==
    IF k = 0 THEN 0 ELSE Fl(Accumulate(terms, k - 1) + terms[k])

\* sqrtf: the largest integer whose square is at most x, by bisection of
\* lo .. hi where lo * lo <= x < (hi + 1) * (hi + 1)
RECURSIVE IsqrtBetween(_, _, _)
IsqrtBetween(x, lo, hi) ==
    IF lo >= hi THEN lo
    ELSE LET mid == (lo + hi + 1) \div 2
         IN  IF mid <= x \div mid
             THEN IsqrtBetween(x, mid, hi)
             ELSE IsqrtBetween(x, lo, mid - 1)
Isqrt(x) == IsqrtBetween(x, 0, x)

\* the sample values of the stereo model, in 1/STEREO_DEN; the sum of
\* ANALYSIS_SAMPLES squares of the non-zero ones does not fit MANTISSA_BITS bits
StereoSamples == {-7, 0, 7}
\* a sample of the stereo model as the ring stores it
SampleStep == SAMPLE_DEN \div STEREO_DEN

\* std::abs(left[i]) > 0.01f && std::abs(right[i]) > 0.01f
Qualifies(l, r) == Abs(l) * 100 > STEREO_DEN /\ Abs(r) * 100 > STEREO_DEN

\* atan2f(r, l) in degrees, for the pairs of the model: |l| = |r| > 0
Atan2Deg(r, l) ==
    IF l > 0 THEN (IF r > 0 THEN 45 ELSE -45)
    ELSE (IF r > 0 THEN 135 ELSE -135)

\* sum_phase after the loop over the first k samples
RECURSIVE SumPhase(_, _, _)
SumPhase(left, right, k) ==
    IF k = 0 THEN 0
    ELSE SumPhase(left, right, k - 1)
           + (IF Qualifies(left[k], right[k]) THEN Atan2Deg(right[k], left[k]) ELSE 0)

\* phase = sum_phase / ANALYSIS_SAMPLES
PhaseOfMeanOverQualifying(left, right) ==
    LET count == Cardinality({k \in DOMAIN left : Qualifies(left[k], right[k])})
    IN  IF count = 0 THEN 0
        ELSE TruncDiv(SumPhase(left, right, Len(left)) * 1000, count)
PhaseOf(left, right) ==
    TruncDiv(SumPhase(left, right, Len(left)) * 1000, ANALYSIS_SAMPLES)

\* "Calculate correlation": the five sums, num, den and the clamp
CorrelationOf(left, right) ==
    LET n == ANALYSIS_SAMPLES
        idx == 1 .. n
        sum_l == Accumulate(left, n)
        sum_r == Accumulate(right, n)
        sum_lr == Accumulate([i \in idx |-> Fl(left[i] * right[i])], n)
        sum_l2 == Accumulate([i \in idx |-> Fl(left[i] * left[i])], n)
        sum_r2 == Accumulate([i \in idx |-> Fl(right[i] * right[i])], n)
        num == Fl(Fl(n * sum_lr) - Fl(sum_l * sum_r))
        under == Fl(Fl(Fl(n * sum_l2) - Fl(sum_l * sum_l))
                      * Fl(Fl(n * sum_r2) - Fl(sum_r * sum_r)))
        den == IF under >= 0 THEN Isqrt(under) ELSE 0
    IN  [den_positive |-> under > 0,
         correlation |-> IF under > 0
                         THEN Max(-1000, Min(1000, TruncDiv(num * 1000, den)))
                         ELSE 0]

\* the whole call: the snapshot under buffer_mutex, then the two results
getStereoAnalysis ==
    /\ main_pc = "loop"
    /\ reader_pc = "idle"
    /\ MayLock("main")
    /\ \E snap \in {Snapshot([kind |-> "stereo", samples |-> ANALYSIS_SAMPLES,
                              left_channel |-> TRUE])} :
         \E left \in {[i \in DOMAIN snap.left |-> snap.left[i] \div SampleStep]},
            right \in {[i \in DOMAIN snap.right |-> snap.right[i] \div SampleStep]} :
            \E c \in {CorrelationOf(left, right)} :
               stereo' = [calls |-> 1, left |-> left, right |-> right,
                          phase |-> PhaseOf(left, right),
                          correlation |-> c.correlation,
                          den_positive |-> c.den_positive]
    /\ UNCHANGED <<powerVars, ringVars, spectrumVars, accessVars, mpdVars, handleVars, parameterVars>>

\* no call yet
InitStereo ==
    stereo = [calls |-> 0, left |-> <<>>, right |-> <<>>, phase |-> 0,
              correlation |-> 0, den_positive |-> FALSE]

\* the ring when the capture thread has written its first ANALYSIS_SAMPLES
\* frames, whatever the hardware delivered
InitRingWindow ==
    \E frames \in [1 .. ANALYSIS_SAMPLES -> StereoSamples \X StereoSamples] :
        /\ circular_buffer_left =
               [s \in Slots |-> IF s < ANALYSIS_SAMPLES
                                THEN frames[s + 1][1] * SampleStep ELSE 0]
        /\ circular_buffer_right =
               [s \in Slots |-> IF s < ANALYSIS_SAMPLES
                                THEN frames[s + 1][2] * SampleStep ELSE 0]
        /\ write_pos = ANALYSIS_SAMPLES % Capacity
        /\ buffer_mutex = {}
        /\ capture_pc = "read"
        /\ audio_buffer = <<>>
        /\ pos = write_pos
        /\ frame_i = 0
        /\ hw_next = ANALYSIS_SAMPLES
        /\ reader_pc = "idle"
        /\ reader_req = NoRequest
        /\ out = NoOut
        /\ written = [k \in 1 .. ANALYSIS_SAMPLES |->
                         <<frames[k][1] * SampleStep, frames[k][2] * SampleStep>>]
        /\ committed = [left |-> circular_buffer_left,
                        right |-> circular_buffer_right,
                        write_pos |-> write_pos]

(***************************************************************************)
(* AudioProcessor: the parameter setters (the derived factors are          *)
(* functions of the two parameters, see updateParameters).                 *)
(***************************************************************************)
\* AudioProcessor::setSensitivity
setSensitivity(value) == Max(SENSITIVITY_MIN, Min(SENSITIVITY_MAX, value))
\* AudioProcessor::setNoiseReduction
setNoiseReduction(value) == Max(NOISE_REDUCTION_MIN, Min(NOISE_REDUCTION_MAX, value))

\* updateParameters: integral_factor = nr / 100 * 0.95, in 1/2000
integral_factor(nr) == nr * 19
\* updateParameters: gravity_factor = max(1 - nr / 100 * 0.8, 0.2), in 1/1000
gravity_factorZero(nr) == 0
gravity_factor(nr) == Max(1000 - nr * 8, 200)
\* updateParameters: scale_factor = sensitivity / 100 * 2.2, in 1/1000
scale_factor(sens) == sens * 22

\* the factors of the constructor's call of updateParameters only
updateParametersOnce(sens, nr) ==
    [integral_factor |-> integral_factor(NOISE_REDUCTION_DEFAULT),
     gravity_factor |-> gravity_factor(NOISE_REDUCTION_DEFAULT),
     scale_factor |-> scale_factor(SENSITIVITY_DEFAULT)]
\* updateParameters: the three stored factors
updateParameters(sens, nr) ==
    [integral_factor |-> integral_factor(nr),
     gravity_factor |-> gravity_factor(nr),
     scale_factor |-> scale_factor(sens)]

(***************************************************************************)
(* ControlHandler::poll.  c is [state, sensitivity, noise_reduction]; in   *)
(* is what the GPIO reads give: the direction of each encoder (0: no       *)
(* step) and, for each button, whether this poll sees its falling edge     *)
(* (!btn && btn_last).                                                     *)
(***************************************************************************)
PollInputs(dirs) == [dir1 : dirs, dir2 : dirs, btn1 : BOOLEAN, btn2 : BOOLEAN, pwr : BOOLEAN]
NoInput == [dir1 |-> 0, dir2 |-> 0, btn1 |-> FALSE, btn2 |-> FALSE, pwr |-> FALSE]

PollEncoders(c, in) ==
    [c EXCEPT
       !.sensitivity =
           IF in.dir1 # 0
           THEN setSensitivity(Max(SENSITIVITY_MIN,
                                   Min(SENSITIVITY_MAX, @ + in.dir1 * SENSITIVITY_STEP)))
           ELSE @,
       !.noise_reduction =
           IF in.dir2 # 0
           THEN setNoiseReduction(Max(NOISE_REDUCTION_MIN,
                                      Min(NOISE_REDUCTION_MAX, @ + in.dir2 * NOISE_REDUCTION_STEP)))
           ELSE @]

\* rotary button 1: next visualization, and clear the sleep flag
PollButton1(c, in) ==
    IF in.btn1
    THEN [c EXCEPT !.state.current_viz = (@ + 1) % NUM_VISUALIZATIONS,
                   !.state.is_sleeping = FALSE]
    ELSE c

\* rotary button 2: reset the parameters, and clear the sleep flag
PollButton2(c, in) ==
    IF in.btn2
    THEN [c EXCEPT !.sensitivity = setSensitivity(SENSITIVITY_DEFAULT),
                   !.noise_reduction = setNoiseReduction(NOISE_REDUCTION_DEFAULT),
                   !.state.is_sleeping = FALSE]
    ELSE c

\* power button: leave the control loop
PollPower(c, in) ==
    IF in.pwr THEN [c EXCEPT !.state.running = FALSE] ELSE c

Poll(c, in) == PollPower(PollButton2(PollButton1(PollEncoders(c, in), in), in), in)

(***************************************************************************)
(* VisualizerApp::run: the power state coordinator.                        *)
(***************************************************************************)
\* the guard of the "Enter sleep mode" branch
ShouldEnterSleepLevelTriggered(has_audio, sleeping) == ~has_audio
ShouldEnterSleep(has_audio, sleeping) == ~has_audio /\ ~sleeping

\* the guard of the "Wake up" branch (the else-if of the former)
ShouldWakeWhenAwake(has_audio, sleeping) == has_audio /\ ~sleeping
ShouldWake(has_audio, sleeping) == has_audio /\ sleeping

\* the power flags [ctl, audio, mpd] after the sleep/wake branches
Coordinate(flags, has_audio) ==
    IF ShouldEnterSleep(has_audio, flags.ctl)
    THEN [ctl |-> TRUE, audio |-> TRUE, mpd |-> TRUE, entered |-> TRUE, woke |-> FALSE]
    ELSE IF ShouldWake(has_audio, flags.ctl)
    THEN [ctl |-> FALSE, audio |-> FALSE, mpd |-> FALSE, entered |-> FALSE, woke |-> TRUE]
    ELSE [ctl |-> flags.ctl, audio |-> flags.audio, mpd |-> flags.mpd,
          entered |-> FALSE, woke |-> FALSE]

\* "Handle visualization switching": wake if sleeping
SwitchVisualization(flags, switched) ==
    IF switched /\ flags.ctl
    THEN [flags EXCEPT !.ctl = FALSE, !.audio = FALSE, !.mpd = FALSE, !.woke = TRUE]
    ELSE flags

\* One iteration of the while (state.running) loop: poll, the coordinator,
\* the visualization switch, then either render or the sleeping branch with
\* its control-only poll every SLEEP_POLL_PERIOD iterations.
MainIteration(dirs) ==
    /\ main_pc = "loop"
    /\ state.running
    /\ \E in \in PollInputs(dirs) :
       \E c1 \in {Poll([state |-> state, sensitivity |-> sensitivity,
                        noise_reduction |-> noise_reduction], in)} :
       \E has_audio \in {checkForAudio(now, last_audio_time)} :
       \E f1 \in {Coordinate([ctl |-> c1.state.is_sleeping, audio |-> audio_is_sleeping,
                              mpd |-> mpd_is_sleeping], has_audio)} :
       \E f2 \in {SwitchVisualization(f1, c1.state.current_viz # current_viz)} :
       \E second \in {f2.ctl /\ sleep_counter + 1 >= SLEEP_POLL_PERIOD} :
       \E in2 \in (IF second THEN PollInputs(dirs) ELSE {NoInput}) :
       \E c3 \in {IF second THEN Poll([c1 EXCEPT !.state.is_sleeping = f2.ctl], in2)
                            ELSE [c1 EXCEPT !.state.is_sleeping = f2.ctl]} :
        /\ state' = c3.state
        /\ sensitivity' = c3.sensitivity
        /\ noise_reduction' = c3.noise_reduction
        /\ factors' = updateParameters(c3.sensitivity, c3.noise_reduction)
        /\ audio_is_sleeping' = f2.audio
        /\ mpd_is_sleeping' = f2.mpd
        /\ current_viz' = c1.state.current_viz
        /\ sleep_counter' = IF ~f2.ctl THEN sleep_counter
                            ELSE IF second THEN 0 ELSE sleep_counter + 1
        /\ obs' = [iterated |-> TRUE,
                   has_audio |-> has_audio,
                   prev_silent |-> obs.iterated /\ ~obs.has_audio,
                   asleep_at_start |-> state.is_sleeping,
                   entered |-> f2.entered,
                   woke |-> f2.woke,
                   press |-> in.btn1 \/ in.btn2,
                   press_late |-> in2.btn1 \/ in2.btn2,
                   pressed_ever |-> obs.pressed_ever \/ in.btn1 \/ in.btn2
                                      \/ in2.btn1 \/ in2.btn2]
        /\ since_loud' = [since_loud EXCEPT
                            !.sleeps = Cap2(@ + (IF f2.entered THEN 1 ELSE 0)),
                            !.wakes = Cap2(@ + (IF f2.woke THEN 1 ELSE 0)),
                            !.iters = Cap2(@ + 1)]
    /\ main_ran' = TRUE
    /\ UNCHANGED <<now, last_audio_time, max_amplitude, thread_running, main_pc>>
    /\ UNCHANGED <<ringVars, spectrumVars, stereoVars, accessVars, mpdVars, handleVars>>

\* pcm_handle when start() returns: open when it succeeds; when it fails,
\* null if no device could be opened, still the closed handle if the
\* parameters could not be applied (snd_pcm_close without pcm_handle = nullptr)
StartHandles(ok) == IF ok THEN {"open"} ELSE {"null", "closed"}

\* run(): audio.start() before the loop; on failure run() returns
RunStart ==
    /\ main_pc = "start"
    /\ \E ok \in BOOLEAN :
         /\ thread_running' = ok
         /\ main_pc' = IF ok THEN "loop" ELSE "stopped"
         /\ since_loud' = [since_loud EXCEPT
                             !.watched = ok /\ checkForAudio(now, last_audio_time)]
         /\ pcm_handle' \in StartHandles(ok)
         /\ handle_log' = [start |-> IF ok THEN "ok" ELSE "failed",
                           opens |-> IF pcm_handle' = "null" THEN 0 ELSE 1,
                           closes |-> IF pcm_handle' = "closed" THEN 1 ELSE 0]
    /\ UNCHANGED <<now, last_audio_time, max_amplitude, audio_is_sleeping,
                   mpd_is_sleeping, sensitivity, noise_reduction, state,
                   current_viz, sleep_counter, main_ran, obs>>
    /\ UNCHANGED <<ringVars, spectrumVars, stereoVars, accessVars, mpdVars, reads_after_stop, last_read, parameterVars>>

\* the loop has ended: audio.stop() clears the run flag, joins the thread
\* and closes the handle
RunExit ==
    /\ main_pc = "loop"
    /\ ~state.running
    /\ thread_running' = FALSE
    /\ main_pc' = "stopped"
    /\ handle_log' = Closed(pcm_handle)
    /\ pcm_handle' = "null"
    /\ UNCHANGED <<now, last_audio_time, max_amplitude, audio_is_sleeping,
                   mpd_is_sleeping, sensitivity, noise_reduction, state,
                   current_viz, sleep_counter, main_ran, obs, since_loud>>
    /\ UNCHANGED <<ringVars, spectrumVars, stereoVars, accessVars, mpdVars, reads_after_stop, last_read, parameterVars>>

(***************************************************************************)
(* The two unguarded accesses of last_audio_time, a plain                  *)
(* steady_clock::time_point: the store of the capture thread at the end of *)
(* an iteration and the load of the main thread in checkForAudio.  Neither *)
(* is one step of the machine the other thread cannot see into, so each is *)
(* split into its beginning and its end.  A load that overlaps the store   *)
(* is a data race: checkForAudio may then return either answer.            *)
(***************************************************************************)
\* no access in progress
InitAccess ==
    time_access = [writer |-> FALSE, reader |-> FALSE, raced |-> FALSE,
                   t |-> 0, has_audio |-> TRUE]

\* an iteration of audioThreadFunc up to the store: the read, the peak,
\* "max_amplitude = frame_max" and, above the threshold, the store begins
CaptureSenseBegin ==
    /\ thread_running
    /\ ~time_access.writer
    /\ \E ok \in BOOLEAN, block \in PowerBlocks :
         IF ok
         THEN /\ max_amplitude' = FrameMax(block)
              /\ time_access' =
                     IF AboveThreshold(FrameMax(block))
                     THEN [time_access EXCEPT !.writer = TRUE,
                                              !.raced = @ \/ time_access.reader]
                     ELSE time_access
         ELSE UNCHANGED <<max_amplitude, time_access>>
    /\ UNCHANGED <<now, last_audio_time, since_loud, thread_running,
                   audio_is_sleeping, mpd_is_sleeping, sensitivity,
                   noise_reduction, state, current_viz, sleep_counter, main_pc,
                   main_ran, obs>>
    /\ UNCHANGED <<ringVars, spectrumVars, stereoVars, mpdVars, handleVars, parameterVars>>

\* "last_audio_time = std::chrono::steady_clock::now()" is complete
CaptureSenseEnd ==
    /\ time_access.writer
    /\ SenseBlock(max_amplitude)
    /\ time_access' = [time_access EXCEPT !.writer = FALSE]
    /\ UNCHANGED <<now, thread_running, audio_is_sleeping, mpd_is_sleeping,
                   sensitivity, noise_reduction, state, current_viz,
                   sleep_counter, main_pc, main_ran, obs>>
    /\ UNCHANGED <<ringVars, spectrumVars, stereoVars, mpdVars, handleVars, parameterVars>>

\* AudioProcessor::checkForAudio up to the load: "auto now = now()" and the
\* load of last_audio_time begins
CheckForAudioBegin ==
    /\ main_pc = "loop"
    /\ ~time_access.reader
    /\ time_access' = [time_access EXCEPT !.reader = TRUE, !.t = now,
                                          !.raced = time_access.writer]
    /\ UNCHANGED <<powerVars, ringVars, spectrumVars, stereoVars, mpdVars,
                   handleVars, parameterVars>>

\* the load is complete and checkForAudio returns: the answer of the value
\* loaded, or any answer when the store of the capture thread overlapped
CheckForAudioEnd ==
    /\ time_access.reader
    /\ \E has_audio \in (IF time_access.raced THEN BOOLEAN
                         ELSE {checkForAudio(time_access.t, last_audio_time)}) :
         time_access' = [time_access EXCEPT !.reader = FALSE, !.raced = FALSE,
                                            !.has_audio = has_audio]
    /\ UNCHANGED <<powerVars, ringVars, spectrumVars, stereoVars, mpdVars,
                   handleVars, parameterVars>>

\* the steady clock advances by one tick
Tick ==
    /\ now < MaxTime
    /\ now' = now + 1
    /\ main_ran' = FALSE
    /\ UNCHANGED <<last_audio_time, max_amplitude, thread_running,
                   audio_is_sleeping, mpd_is_sleeping, sensitivity,
                   noise_reduction, state, current_viz, sleep_counter, main_pc,
                   obs, since_loud>>
    /\ UNCHANGED <<ringVars, spectrumVars, stereoVars, accessVars, mpdVars, handleVars, parameterVars>>

\* the same, when the control loop keeps its cadence (10 ms awake, 100 ms
\* asleep): it iterates at least once in every tick while it runs
TickInCadence ==
    /\ main_pc = "loop" => main_ran
    /\ Tick

(***************************************************************************)
(* AudioProcessor::getSpectrumData after the snapshot: band levels,        *)
(* smoothing and the conversion to integers.  Levels are fixed-point       *)
(* numbers in units of 1/LEVEL_DEN; every product and quotient truncates   *)
(* where the float operation rounds.  The FFT is not computed: the root    *)
(* mean square magnitude of a band, sqrtf(sum / (high_idx - low_idx)), is  *)
(* any level from 0 to MaxMagnitude, the largest magnitude a bin of the    *)
(* Hann-windowed transform of samples in [-1, 1) can have.                 *)
(***************************************************************************)
Bands == 0 .. 6

\* FREQ_BANDS[i + 1] is the source's FREQ_BANDS[i]; correction in tenths
FREQ_BANDS ==
    << [low |-> 63, high |-> 120, correction |-> 5],
       [low |-> 120, high |-> 350, correction |-> 10],
       [low |-> 350, high |-> 900, correction |-> 20],
       [low |-> 900, high |-> 2000, correction |-> 35],
       [low |-> 2000, high |-> 5000, correction |-> 50],
       [low |-> 5000, high |-> 10000, correction |-> 70],
       [low |-> 10000, high |-> 16000, correction |-> 100] >>


\* the arguments of the setter calls: any int
SetterArguments ==
    {-2147483647, -1, 0, 9, 10, 11, 77, 100, 101, 299, 300, 301, 2147483647}

\* a call of setSensitivity(value): the clamp, then updateParameters()
setSensitivityCall ==
    /\ main_pc = "loop"
    /\ \E value \in SetterArguments :
         /\ sensitivity' = setSensitivity(value)
         /\ factors' = updateParameters(setSensitivity(value), noise_reduction)
    /\ UNCHANGED <<now, last_audio_time, max_amplitude, thread_running,
                   audio_is_sleeping, mpd_is_sleeping, noise_reduction, state,
                   current_viz, sleep_counter, main_pc, main_ran, obs, since_loud>>
    /\ UNCHANGED <<ringVars, spectrumVars, stereoVars, accessVars, mpdVars, handleVars>>

\* a call of setNoiseReduction(value): the clamp, then updateParameters()
setNoiseReductionCall ==
    /\ main_pc = "loop"
    /\ \E value \in SetterArguments :
         /\ noise_reduction' = setNoiseReduction(value)
         /\ factors' = updateParameters(sensitivity, setNoiseReduction(value))
    /\ UNCHANGED <<now, last_audio_time, max_amplitude, thread_running,
                   audio_is_sleeping, mpd_is_sleeping, sensitivity, state,
                   current_viz, sleep_counter, main_pc, main_ran, obs, since_loud>>
    /\ UNCHANGED <<ringVars, spectrumVars, stereoVars, accessVars, mpdVars, handleVars>>

\* the constructor calls updateParameters()
InitParameters == factors = updateParameters(sensitivity, noise_reduction)

\* left_bands[i] = rms * scale_factor * FREQ_BANDS[i].correction, with the
\* stored scale_factor
BandLevelWith(rms, scale, i) ==
    MulDiv(MulDiv(rms, scale, 1000), FREQ_BANDS[i + 1].correction, 10)

\* the same with the scale_factor that belongs to sensitivity sens
BandLevel(rms, sens, i) == BandLevelWith(rms, scale_factor(sens), i)

\* one band of "Apply smoothing": the new prev_*_spectrum[i]
\* smoothed = integral_factor * prev + (1 - integral_factor) * band, with the
\* stored integral_factor
SmoothedWith(prev, band, integral) ==
    IF prev >= band
    THEN band + MulDiv(prev - band, integral, 2000)
    ELSE prev + MulDiv(band - prev, 2000 - integral, 2000)

\* the same with the integral_factor that belongs to noise_reduction nr
Smoothed(prev, band, nr) == SmoothedWith(prev, band, integral_factor(nr))

\* the gravity step, with the stored factors
SmoothWithoutGravity(prev, band, integral, gravity) ==
    SmoothedWith(prev, band, integral)
SmoothWith(prev, band, integral, gravity) ==
    LET smoothed == SmoothedWith(prev, band, integral)
    IN  IF smoothed < prev
        THEN Max(prev - MulDiv(prev - smoothed, gravity, 1000), smoothed)
        ELSE smoothed

\* the same with the factors that belong to noise_reduction nr
Smooth(prev, band, nr) ==
    SmoothWith(prev, band, integral_factor(nr), gravity_factor(nr))

\* std::min(255, std::max(0, (int)prev_left_spectrum[i]))
ToByteUnbounded(level) == Max(0, TruncDiv(level, LEVEL_DEN))
ToByte(level) == Min(255, Max(0, TruncDiv(level, LEVEL_DEN)))

\* band magnitudes the transform can give: none, the smallest, a moderate
\* one and the largest
RmsLevels == {0, 1, 100 * LEVEL_DEN, MaxMagnitude * LEVEL_DEN}

\* the largest level a band can have
MaxLevel == BandLevel(MaxMagnitude * LEVEL_DEN, SENSITIVITY_MAX, 6)

\* values of the smoothing state: rest, just under 1, just above 255, the largest
PrevLevels == {0, LEVEL_DEN - 1, 255 * LEVEL_DEN + 1, MaxLevel}

\* the band levels, the smoothing and the outputs of one call, from the root
\* mean square magnitudes of the seven bands of each channel
AnalyseBands(rms_left, rms_right) ==
    /\ prev_left_spectrum' =
           [i \in Bands |-> SmoothWith(prev_left_spectrum[i],
                                       BandLevelWith(rms_left[i], factors.scale_factor, i),
                                       factors.integral_factor,
                                       factors.gravity_factor)]
    /\ prev_right_spectrum' =
           [i \in Bands |-> SmoothWith(prev_right_spectrum[i],
                                       BandLevelWith(rms_right[i], factors.scale_factor, i),
                                       factors.integral_factor,
                                       factors.gravity_factor)]
    /\ left_out' = [i \in Bands |-> ToByte(prev_left_spectrum'[i])]
    /\ right_out' = [i \in Bands |-> ToByte(prev_right_spectrum'[i])]

\* the same when every band of a channel has the same magnitude
Analyse(rms_left, rms_right) ==
    AnalyseBands([i \in Bands |-> rms_left], [i \in Bands |-> rms_right])

(***************************************************************************)
(* The transform of a pure tone.  The bin indexes of the bands are         *)
(* computed as the source computes them, with the transform length 8192.   *)
(* The magnitude of bin j of the Hann-windowed tone of amplitude a at      *)
(* d = j - f * 8192 / 44100 bins from the tone is                          *)
(*     a * 8192 / 4 * |sin(pi d)| / (pi |d| |d - 1| |d + 1|),              *)
(* the kernel of the Hann window; |sin(pi d)| is the same for every bin.   *)
(* Positions are in 1/POSITION_DEN bins, amplitudes in 1/AMPLITUDE_DEN,    *)
(* magnitudes in 1/MAGNITUDE_DEN, powers in 1/MAGNITUDE_DEN^2; all         *)
(* quotients truncate.                                                     *)
(***************************************************************************)
\* frequency f as a bin index: f * FFT_SIZE_BASS / SAMPLE_RATE in int
BinOfUnscaled(freq) == freq
BinOf(freq) == (freq * FFT_SIZE) \div SAMPLE_RATE

low_idx(i) == BinOf(FREQ_BANDS[i + 1].low)
high_idx(i) == BinOf(FREQ_BANDS[i + 1].high)

\* the position of the tone in 1/POSITION_DEN bins: 185.759
TonePosition == MulDiv(Tone.hz * POSITION_DEN, FFT_SIZE, SAMPLE_RATE)
\* the bin of the tone
ToneBin == BinOf(Tone.hz)

\* the magnitude of bin j, in 1/MAGNITUDE_DEN
ToneMagnitude(a, j) ==
    LET d == j * POSITION_DEN - TonePosition
        m1 == (a * Tone.kernel_root) \div Abs(d)
        m2 == MulDiv(m1, Tone.kernel_root, Abs(d - POSITION_DEN))
        m3 == MulDiv(m2, Tone.kernel_root, Abs(d + POSITION_DEN))
    IN  m3 \div (AMPLITUDE_DEN \div MAGNITUDE_DEN)

\* powers are wide numbers <<hi, lo>> = hi * WIDE_BASE + lo, lo < WIDE_BASE
WIDE_BASE == WIDE_ROOT * WIDE_ROOT
WideAdd(p, q) ==
    <<p[1] + q[1] + (p[2] + q[2]) \div WIDE_BASE, (p[2] + q[2]) % WIDE_BASE>>
\* the quotient p / c, which fits one word
WideDiv(p, c) ==
    (p[1] \div c) * WIDE_BASE + ((p[1] % c) * WIDE_BASE + p[2]) \div c

\* mag * mag of bin j, in 1/(MAGNITUDE_DEN * MAGNITUDE_DEN)
TonePower(a, j) ==
    LET mag == ToneMagnitude(a, j)
        h == mag \div WIDE_ROOT
        l == mag % WIDE_ROOT
        low == 2 * h * l * WIDE_ROOT + l * l
    IN  <<h * h + low \div WIDE_BASE, low % WIDE_BASE>>

\* sum of mag * mag over the bins lo .. hi - 1
RECURSIVE SumPower(_, _, _)
SumPower(a, lo, hi) ==
    IF hi <= lo THEN <<0, 0>>
    ELSE IF hi = lo + 1 THEN TonePower(a, lo)
    ELSE LET mid == (lo + hi) \div 2
         IN  WideAdd(SumPower(a, lo, mid), SumPower(a, mid, hi))

\* sqrtf(sum / (high_idx - low_idx)) of band i, in 1/LEVEL_DEN; the loop
\* stops at j < FFT_SIZE_BASS / 2
ToneRms(a, i) ==
    LET sum == SumPower(a, low_idx(i), Min(high_idx(i), FFT_SIZE \div 2))
        mean == WideDiv(sum, high_idx(i) - low_idx(i))
    IN  MulDiv(Isqrt(mean), LEVEL_DEN, MAGNITUDE_DEN)

\* amplitudes of the tone, in 1/AMPLITUDE_DEN: from -100 dB to full scale
ToneAmplitudes ==
    {1, 100, 1000, 2000, 5000, 10000, 15000, 20000, 50000, 80000, AMPLITUDE_DEN}

\* the band magnitudes of the tone, for each amplitude
ToneBands == [a \in ToneAmplitudes |-> [i \in Bands |-> ToneRms(a, i)]]

\* a call while the window holds the tone, at some amplitude in each channel
getSpectrumDataTone ==
    /\ main_pc = "loop"
    /\ reader_pc = "idle"
    /\ MayLock("main")
    /\ spectrum_calls < MaxCalls
    /\ \E a_left, a_right \in ToneAmplitudes :
         AnalyseBands(ToneBands[a_left], ToneBands[a_right])
    /\ spectrum_calls' = spectrum_calls + 1
    /\ spectrum_polled' = FALSE
    /\ UNCHANGED <<powerVars, ringVars, stereoVars, accessVars, mpdVars, handleVars, parameterVars>>

\* the whole call; the snapshot it starts with needs buffer_mutex free
getSpectrumData ==
    /\ main_pc = "loop"
    /\ reader_pc = "idle"
    /\ MayLock("main")
    /\ spectrum_calls < MaxCalls
    /\ \E rms_left, rms_right \in RmsLevels : Analyse(rms_left, rms_right)
    /\ spectrum_calls' = spectrum_calls + 1
    /\ spectrum_polled' = FALSE
    /\ UNCHANGED <<powerVars, ringVars, stereoVars, accessVars, mpdVars, handleVars, parameterVars>>

\* the call when the snapshot is all zeros: every bin of the transform is 0.
\* The call counter saturates, the calls go on for ever.
getSpectrumDataSilent ==
    /\ main_pc = "loop"
    /\ reader_pc = "idle"
    /\ MayLock("main")
    /\ Analyse(0, 0)
    /\ spectrum_calls' = Min(spectrum_calls + 1, MaxCalls + 2)
    /\ spectrum_polled' = FALSE
    /\ UNCHANGED <<powerVars, ringVars, stereoVars, accessVars, mpdVars, handleVars, parameterVars>>

\* polls that change a parameter: one encoder turns or button 2 resets
ParameterInputs ==
    {in \in PollInputs({-1, 0, 1}) :
        /\ ~in.btn1 /\ ~in.pwr
        /\ \/ in.dir1 # 0 /\ in.dir2 = 0 /\ ~in.btn2
           \/ in.dir1 = 0 /\ in.dir2 # 0 /\ ~in.btn2
           \/ in.dir1 = 0 /\ in.dir2 = 0 /\ in.btn2}

\* ControlHandler::poll at the top of a control-loop iteration that will
\* draw the spectrum: once before each call of getSpectrumData
ParameterPoll ==
    /\ main_pc = "loop"
    /\ ~spectrum_polled
    /\ spectrum_calls < MaxCalls
    /\ \E in \in ParameterInputs :
         \E c \in {Poll([state |-> state, sensitivity |-> sensitivity,
                         noise_reduction |-> noise_reduction], in)} :
            /\ state' = c.state
            /\ sensitivity' = c.sensitivity
            /\ noise_reduction' = c.noise_reduction
            /\ factors' = updateParameters(c.sensitivity, c.noise_reduction)
    /\ spectrum_polled' = TRUE
    /\ UNCHANGED <<now, last_audio_time, max_amplitude, thread_running,
                   audio_is_sleeping, mpd_is_sleeping, current_viz,
                   sleep_counter, main_pc, main_ran, obs, since_loud>>
    /\ UNCHANGED <<prev_left_spectrum, prev_right_spectrum, left_out, right_out,
                   spectrum_calls>>
    /\ UNCHANGED <<ringVars, stereoVars, accessVars, mpdVars, handleVars>>

\* the analyser after construction: prev_*_spectrum{} are zeros
InitSpectrum ==
    /\ prev_left_spectrum = [i \in Bands |-> 0]
    /\ prev_right_spectrum = [i \in Bands |-> 0]
    /\ left_out = [i \in Bands |-> 0]
    /\ right_out = [i \in Bands |-> 0]
    /\ spectrum_calls = 0
    /\ spectrum_polled = FALSE

\* the analyser at some later time: any smoothing state
InitSpectrumAny ==
    /\ \E l, r \in PrevLevels :
         /\ prev_left_spectrum = [i \in Bands |-> l]
         /\ prev_right_spectrum = [i \in Bands |-> r]
    /\ left_out = [i \in Bands |-> 0]
    /\ right_out = [i \in Bands |-> 0]
    /\ spectrum_calls = 0
    /\ spectrum_polled = FALSE

\* the same with the two channels' levels tied: the right ones are as far
\* below the largest level as the left ones are above 0
InitSpectrumComplementary ==
    /\ \E l \in PrevLevels :
         /\ prev_left_spectrum = [i \in Bands |-> l]
         /\ prev_right_spectrum = [i \in Bands |-> MaxLevel - l]
    /\ left_out = [i \in Bands |-> 0]
    /\ right_out = [i \in Bands |-> 0]
    /\ spectrum_calls = 0
    /\ spectrum_polled = FALSE

\* the power state after construction (started = FALSE) and after a
\* successful AudioProcessor::start in run (started = TRUE)
InitPowerAt(started, sens, nr) ==
    /\ now = 0
    /\ last_audio_time = 0
    /\ max_amplitude = 0
    /\ thread_running = started
    /\ audio_is_sleeping = FALSE
    /\ mpd_is_sleeping = FALSE
    /\ sensitivity = sens
    /\ noise_reduction = nr
    /\ state = [running |-> TRUE, current_viz |-> 0, is_sleeping |-> FALSE]
    /\ current_viz = 0
    /\ sleep_counter = 0
    /\ main_pc = IF started THEN "loop" ELSE "start"
    /\ main_ran = FALSE
    /\ obs = [iterated |-> FALSE, has_audio |-> TRUE, prev_silent |-> FALSE,
              asleep_at_start |-> FALSE, entered |-> FALSE, woke |-> FALSE,
              press |-> FALSE, press_late |-> FALSE, pressed_ever |-> FALSE]
    /\ since_loud = [asleep_at_loud |-> FALSE, after_long_silence |-> FALSE,
                     watched |-> started, sleeps |-> 0, wakes |-> 0, iters |-> 0]

(***************************************************************************)
(* MPDClient: the track metadata and its formatting.  A string is the      *)
(* sequence of its pieces of text: single characters where the code looks  *)
(* at characters (digits, dates), whole words elsewhere.                   *)
(***************************************************************************)
WAITING_FOR_MPD == <<"Waiting for MPD...">>
NO_SONG_PLAYING == <<"No song playing">>
UNKNOWN_TITLE == <<"Unknown Title">>

\* a tag of a song as mpd_song_get_tag returns it: NULL or a string
NullTag == [null |-> TRUE, text |-> <<>>]
Tag(text) == [null |-> FALSE, text |-> text]

\* std::to_string of an unsigned number
RECURSIVE to_string(_)
to_string(n) ==
    LET digit == <<"0", "1", "2", "3", "4", "5", "6", "7", "8", "9">>[(n % 10) + 1]
    IN  IF n < 10 THEN <<digit>> ELSE to_string(n \div 10) \o <<digit>>

\* ss << std::setfill('0') << std::setw(2) << s
SetW2Unpadded(s) == s
SetW2(s) == IF Len(s) < 2 THEN [i \in 1 .. (2 - Len(s)) |-> "0"] \o s ELSE s

\* MPDClient::updateFormattedText: the new formatted_text
updateFormattedText(rec) ==
    (IF rec.track_number # <<>> THEN SetW2(rec.track_number) \o <<". ">> ELSE <<>>)
    \o (IF rec.title # <<>> THEN rec.title ELSE UNKNOWN_TITLE)
    \o (IF rec.artist # <<>> THEN <<" - ">> \o rec.artist ELSE <<>>)
    \o (IF rec.year # <<>> THEN <<" (">> \o rec.year \o <<")">> ELSE <<>>)

\* the record the constructor stores
DefaultRecord ==
    [track_number |-> <<>>, title |-> WAITING_FOR_MPD, artist |-> <<>>, year |-> <<>>]

\* updateCurrentSong, song == NULL: the record stored
NoSongRecordUntitled ==
    [track_number |-> <<>>, title |-> <<>>, artist |-> <<>>, year |-> <<>>]
NoSongRecord ==
    [track_number |-> <<>>, title |-> NO_SONG_PLAYING, artist |-> <<>>, year |-> <<>>]

\* mpd_run_current_song gave no song
NoSong == [active |-> FALSE, pos |-> 0, title |-> NullTag, artist |-> NullTag,
           date |-> NullTag]

\* updateCurrentSong, the four assignments: the record of a fetched song
YearOf(tag) ==
    IF ~tag.null /\ Len(tag.text) >= 4 THEN SubSeq(tag.text, 1, 4) ELSE <<>>
TextOf(tag) == IF tag.null THEN <<>> ELSE tag.text
RecordOf(s) ==
    IF s.active
    THEN [track_number |-> to_string(s.pos + 1),
          title |-> TextOf(s.title),
          artist |-> TextOf(s.artist),
          year |-> YearOf(s.date)]
    ELSE NoSongRecord

\* the songs the service can report: first, ninth, tenth and hundredth of
\* the queue, with or without each tag, the date short, a year or longer
DateTags == {NullTag, Tag(<<"9", "8">>), Tag(<<"1", "9", "9", "9">>),
             Tag(<<"2", "0", "0", "1", "-", "0", "5">>)}
Songs ==
    [active : {TRUE}, pos : {0, 8, 9, 99},
     title : {NullTag, Tag(<<"Title">>)},
     artist : {NullTag, Tag(<<"Artist">>)},
     date : DateTags]

\* the two songs of the thread model
SongA == [active |-> TRUE, pos |-> 0, title |-> Tag(<<"Title">>),
          artist |-> Tag(<<"Artist">>), date |-> Tag(<<"1", "9", "9", "9">>)]
SongB == [active |-> TRUE, pos |-> 9, title |-> NullTag,
          artist |-> Tag(<<"Other">>), date |-> NullTag]

(***************************************************************************)
(* MPDClient: the background thread (mpdThreadFunc), the calls of the      *)
(* controlling thread, and the MPD service as the environment.             *)
(***************************************************************************)
\* RECONNECT_DELAY_SEC * 10 rounds of 100 ms, scaled
RECONNECT_DELAY_ROUNDS == 2
\* tv.tv_sec = 1 of the select() call, in ticks
SELECT_TIMEOUT_TICKS == 2

recordVars == <<track_number, title, artist, year, formatted_text>>
flagVars == <<mpd_thread_running, shutdown_requested>>
serviceVars == <<service_up, service_song>>
localVars == <<mpd_ret, song, delay_i, select_elapsed, select_ret>>
lockVars == <<conn_mutex, data_mutex, mpd_held>>
fetchVars == <<fetched, last_fetch>>
historyVars == <<fetched, last_fetch, net>>
mainCallVars == <<mpdmain_pc, get_field, text_out, connected_out, main_held>>
otherVars == <<ringVars, spectrumVars, stereoVars, accessVars, handleVars, parameterVars>>
powerVarsOfAudio == <<now, last_audio_time, max_amplitude, thread_running,
                      audio_is_sleeping, sensitivity, noise_reduction, state,
                      current_viz, sleep_counter, main_pc, main_ran, obs, since_loud>>

\* the four fields as one record
Record ==
    [track_number |-> track_number, title |-> title, artist |-> artist, year |-> year]

\* std::mutex::unlock by thread t: unlocking a mutex the thread does not own
\* is undefined; the pthread mutex is then left as it is or left unlocked
Unlock(owner, t) == IF owner = t THEN {"none"} ELSE {owner, "none"}

\* the thread has made call on the network; idle_out: an idle request is
\* left without its result and without a cancel on the connection
Logged(call, idle_out) == [last |-> call, idle_out |-> idle_out]

\* the step is one in which the thread makes call c
Calls(c) ==
    /\ net'.last = c
    /\ net' # net \/ (mpd_pc = "connect_try" /\ mpd_pc' # "connect_try")

\* a step of the MPD thread from one position to another
ThreadStep(from, to) ==
    /\ mpd_pc = from
    /\ mpd_pc' = to
    /\ UNCHANGED <<flagVars, serviceVars, mainCallVars, powerVars, otherVars>>

\* while (thread_running && !shutdown_requested)
LoopContinues == mpd_thread_running /\ ~shutdown_requested
LoopTest ==
    /\ ThreadStep("loop", IF LoopContinues THEN "sleep_check" ELSE "final_disconnect")
    /\ UNCHANGED <<conn, lockVars, recordVars, localVars, event_pending, historyVars>>

\* if (is_sleeping) { if (conn) disconnectMPD(); ...
SleepCheckWithoutDisconnect ==
    /\ ThreadStep("sleep_check",
                  IF mpd_is_sleeping THEN "sleep_poll" ELSE "shutdown_check")
    /\ UNCHANGED <<conn, lockVars, recordVars, localVars, event_pending, historyVars>>
SleepCheck ==
    /\ ThreadStep("sleep_check",
                  IF mpd_is_sleeping
                  THEN (IF conn # "null" THEN "sleep_disconnect" ELSE "sleep_poll")
                  ELSE "shutdown_check")
    /\ UNCHANGED <<conn, lockVars, recordVars, localVars, event_pending, historyVars>>

\* disconnectMPD on entering sleep
SleepDisconnect ==
    /\ ThreadStep("sleep_disconnect", "sleep_poll")
    /\ conn_mutex = "none"
    /\ conn' = "null"
    /\ event_pending' = FALSE
    /\ net' = IF conn # "null" THEN Logged("close", FALSE) ELSE net
    /\ UNCHANGED <<lockVars, recordVars, localVars, fetchVars>>

\* while (is_sleeping && !shutdown_requested) sleep_for(SLEEP_CHECK_INTERVAL_MS)
SleepPollContinues == mpd_is_sleeping /\ ~shutdown_requested
SleepPollExitToDelay ==
    /\ ThreadStep("sleep_poll", "delay")
    /\ ~SleepPollContinues
    /\ net' = IF shutdown_requested THEN net ELSE Logged("woke", FALSE)
    /\ UNCHANGED <<conn, lockVars, recordVars, localVars, event_pending, fetchVars>>
SleepPollExit ==
    /\ ThreadStep("sleep_poll", "shutdown_check")
    /\ ~SleepPollContinues
    /\ net' = IF shutdown_requested THEN net ELSE Logged("woke", FALSE)
    /\ UNCHANGED <<conn, lockVars, recordVars, localVars, event_pending, fetchVars>>

\* if (shutdown_requested) break; if (!conn) ...
ShutdownCheck ==
    /\ ThreadStep("shutdown_check",
                  IF shutdown_requested THEN "final_disconnect"
                  ELSE IF conn = "null" THEN "connect" ELSE "idle_send")
    /\ UNCHANGED <<conn, lockVars, recordVars, localVars, event_pending, historyVars>>

\* connectMPD: lock_guard lock(conn_mutex)
ConnectLock ==
    /\ ThreadStep("connect", "connect_try")
    /\ conn_mutex = "none"
    /\ conn_mutex' = "mpd"
    /\ mpd_held' = Append(mpd_held, "conn_mutex")
    /\ UNCHANGED <<conn, data_mutex, recordVars, localVars, event_pending, historyVars>>

\* if (shutdown_requested || is_sleeping): the test before a connection
\* attempt, a fetch and an idle request
RefusedAsleepOnly == mpd_is_sleeping
Refused == shutdown_requested \/ mpd_is_sleeping

\* connectMPD followed by the idle block
ConnectTryThenIdle ==
    /\ mpd_pc = "connect_try"
    /\ \E ok \in {~Refused /\ service_up} :
         /\ ThreadStep("connect_try", IF ok THEN "idle_send" ELSE "delay")
         /\ conn' = IF ok THEN "open" ELSE "null"
         /\ mpd_ret' = IF ok THEN "idle_send" ELSE mpd_ret
         /\ net' = IF Refused
                   THEN Logged("connect_refused", FALSE)
                   ELSE Logged(IF ok THEN "connect_ok" ELSE "connect_failed", FALSE)
    /\ conn_mutex' \in Unlock(conn_mutex, "mpd")
    /\ mpd_held' = <<>>
    /\ delay_i' = 0
    /\ event_pending' = FALSE
    /\ UNCHANGED <<data_mutex, recordVars, song, select_elapsed, select_ret, fetchVars>>
\* connectMPD: the rest, up to the return; on success updateCurrentSong is
\* called, on failure the reconnect delay starts
ConnectTry ==
    /\ mpd_pc = "connect_try"
    /\ \E ok \in {~Refused /\ service_up} :
         /\ ThreadStep("connect_try", IF ok THEN "update_lock" ELSE "delay")
         /\ conn' = IF ok THEN "open" ELSE "null"
         /\ mpd_ret' = IF ok THEN "idle_send" ELSE mpd_ret
         /\ net' = IF Refused
                   THEN Logged("connect_refused", FALSE)
                   ELSE Logged(IF ok THEN "connect_ok" ELSE "connect_failed", FALSE)
    /\ conn_mutex' \in Unlock(conn_mutex, "mpd")
    /\ mpd_held' = <<>>
    /\ delay_i' = 0
    /\ event_pending' = FALSE
    /\ UNCHANGED <<data_mutex, recordVars, song, select_elapsed, select_ret, fetchVars>>

\* for (i = 0; i < RECONNECT_DELAY_SEC * 10 && !shutdown_requested && !is_sleeping; i++)
DelayContinuesAsleep == delay_i < RECONNECT_DELAY_ROUNDS /\ ~shutdown_requested
DelayContinues ==
    delay_i < RECONNECT_DELAY_ROUNDS /\ ~shutdown_requested /\ ~mpd_is_sleeping
DelayRound ==
    /\ ThreadStep("delay", "delay")
    /\ DelayContinues
    /\ delay_i' = delay_i + 1
    /\ UNCHANGED <<conn, lockVars, recordVars, mpd_ret, song, select_elapsed,
                   select_ret, event_pending, historyVars>>

\* a delay that can end after any round
DelayExitEarly ==
    /\ ThreadStep("delay", "loop")
    /\ delay_i' = 0
    /\ net' = Logged(IF delay_i = RECONNECT_DELAY_ROUNDS THEN "delayed" ELSE "delay_cut",
                     FALSE)
    /\ UNCHANGED <<conn, lockVars, recordVars, mpd_ret, song, select_elapsed,
                   select_ret, event_pending, fetchVars>>
DelayExit ==
    /\ ThreadStep("delay", "loop")
    /\ ~DelayContinues
    /\ delay_i' = 0
    /\ net' = Logged(IF delay_i = RECONNECT_DELAY_ROUNDS THEN "delayed" ELSE "delay_cut",
                     FALSE)
    /\ UNCHANGED <<conn, lockVars, recordVars, mpd_ret, song, select_elapsed,
                   select_ret, event_pending, fetchVars>>

\* the MPD thread locks mutex m
LockByMpd(m) ==
    /\ IF m = "conn_mutex"
       THEN conn_mutex = "none" /\ conn_mutex' = "mpd" /\ UNCHANGED data_mutex
       ELSE data_mutex = "none" /\ data_mutex' = "mpd" /\ UNCHANGED conn_mutex
    /\ mpd_held' = Append(mpd_held, m)

\* updateCurrentSong: the mutexes of its two lock guards, in order
UpdateLockOrderDataFirst == <<"data_mutex", "conn_mutex">>
UpdateLockOrder == <<"conn_mutex", "data_mutex">>

\* updateCurrentSong: lock_guard lock(conn_mutex)
UpdateLock ==
    /\ ThreadStep("update_lock", "update_fetch")
    /\ LockByMpd(UpdateLockOrder[1])
    /\ UNCHANGED <<conn, recordVars, localVars, event_pending, historyVars>>

\* updateCurrentSong: the early return, mpd_run_current_song and its error path
UpdateFetch ==
    /\ mpd_pc = "update_fetch"
    /\ IF conn = "null" \/ Refused
       THEN /\ ThreadStep("update_fetch", mpd_ret)
            /\ conn_mutex' \in Unlock(conn_mutex, "mpd")
            /\ mpd_held' = <<>>
            /\ net' = Logged("fetch_skipped", net.idle_out)
            /\ UNCHANGED <<conn, song, event_pending>>
       ELSE IF conn = "broken"
       THEN /\ ThreadStep("update_fetch", mpd_ret)
            /\ conn' = "null"
            /\ event_pending' = FALSE
            /\ conn_mutex' \in Unlock(conn_mutex, "mpd")
            /\ mpd_held' = <<>>
            /\ net' = Logged("fetch_failed", FALSE)
            /\ UNCHANGED song
       ELSE /\ ThreadStep("update_fetch", "update_lock_data")
            /\ song' = service_song
            /\ net' = Logged("fetch", net.idle_out)
            /\ UNCHANGED <<conn, conn_mutex, mpd_held, event_pending>>
    /\ UNCHANGED <<data_mutex, recordVars, mpd_ret, delay_i, select_elapsed,
                   select_ret, fetchVars>>

\* updateCurrentSong: lock_guard data_lock(data_mutex)
UpdateLockData ==
    /\ ThreadStep("update_lock_data", "update_store")
    /\ LockByMpd(UpdateLockOrder[2])
    /\ UNCHANGED <<conn, recordVars, localVars, event_pending, historyVars>>

\* updateCurrentSong: the assignments to the four fields
UpdateStore ==
    /\ ThreadStep("update_store", "update_format")
    /\ \E rec \in {RecordOf(song)} :
         /\ track_number' = rec.track_number
         /\ title' = rec.title
         /\ artist' = rec.artist
         /\ year' = rec.year
    /\ UNCHANGED <<conn, lockVars, formatted_text, localVars, event_pending, historyVars>>

\* updateCurrentSong: updateFormattedText()
UpdateFormat ==
    /\ ThreadStep("update_format", "update_return")
    /\ formatted_text' = updateFormattedText(Record)
    /\ UNCHANGED <<conn, lockVars, track_number, title, artist, year, localVars,
                   event_pending, historyVars>>

\* updateCurrentSong: the return, both guards unlock
UpdateReturn ==
    /\ ThreadStep("update_return", mpd_ret)
    /\ data_mutex' = "none"
    /\ conn_mutex' \in Unlock(conn_mutex, "mpd")
    /\ mpd_held' = <<>>
    /\ fetched' = TRUE
    /\ last_fetch' = song
    /\ song' = NoSong
    /\ UNCHANGED <<conn, recordVars, mpd_ret, delay_i, select_elapsed, select_ret,
                   event_pending, net>>

\* the block that sends idle: continue, or mpd_send_idle_mask, which can
\* fail when the peer is gone and when the library still waits for the
\* result of an earlier request
IdleSend ==
    /\ mpd_pc = "idle_send"
    /\ conn_mutex = "none"
    /\ IF conn = "null" \/ Refused
       THEN /\ ThreadStep("idle_send", "loop")
            /\ UNCHANGED <<conn, event_pending, net>>
       ELSE \E sent \in (IF conn = "broken" \/ net.idle_out THEN BOOLEAN ELSE {TRUE}) :
              IF sent
              THEN /\ ThreadStep("idle_send", "idle_fd")
                   /\ net' = Logged("idle", TRUE)
                   /\ UNCHANGED <<conn, event_pending>>
              ELSE /\ ThreadStep("idle_send", "loop")
                   /\ conn' = "null"
                   /\ event_pending' = FALSE
                   /\ net' = Logged("idle_failed", FALSE)
    /\ UNCHANGED <<lockVars, recordVars, localVars, fetchVars>>

\* the block that reads the descriptor; an open connection has one, a
\* connection whose peer is gone may have lost it
IdleFd ==
    /\ mpd_pc = "idle_fd"
    /\ conn_mutex = "none"
    /\ \E fd \in (IF conn = "broken" THEN {-1, 0} ELSE {0}) :
         IF conn = "null"
         THEN /\ ThreadStep("idle_fd", "loop")
              /\ UNCHANGED <<conn, event_pending, net>>
         ELSE IF fd < 0
         THEN /\ ThreadStep("idle_fd", "loop")
              /\ conn' = "null"
              /\ event_pending' = FALSE
              /\ net' = Logged("fd_failed", FALSE)
         ELSE /\ ThreadStep("idle_fd", "select")
              /\ UNCHANGED <<conn, event_pending, net>>
    /\ select_elapsed' = 0
    /\ UNCHANGED <<lockVars, recordVars, mpd_ret, song, delay_i, select_ret,
                   fetchVars>>

\* select(): the descriptor is readable on an event and when the peer is gone
Readable == event_pending \/ conn = "broken"
SelectNeverTimesOut == FALSE
SelectTimedOut == select_elapsed >= SELECT_TIMEOUT_TICKS

\* a tick passes in select()
SelectWait ==
    /\ ThreadStep("select", "select")
    /\ ~Readable
    /\ ~SelectTimedOut
    /\ select_elapsed' = Min(select_elapsed + 1, SELECT_TIMEOUT_TICKS + 1)
    /\ UNCHANGED <<conn, lockVars, recordVars, mpd_ret, song, delay_i, select_ret,
                   event_pending, historyVars>>

\* select() returns ret: 1 readable, 0 timed out, -1 interrupted by a signal
SelectReturns(ret) ==
    /\ ThreadStep("select", "after_select")
    /\ ret = 1 => Readable
    /\ ret = 0 => (SelectTimedOut /\ ~Readable)
    /\ select_ret' = ret
    /\ select_elapsed' = 0
    /\ net' = IF ret < 0 THEN Logged("select_failed", net.idle_out) ELSE net
    /\ UNCHANGED <<conn, lockVars, recordVars, mpd_ret, song, delay_i,
                   event_pending, fetchVars>>

SelectReturn == \E ret \in {0, 1} : SelectReturns(ret)
SelectInterrupted == SelectReturns(-1)

\* after select(): cancel the idle, receive it, or send noidle on a timeout
AfterSelect ==
    /\ ThreadStep("after_select",
                  IF shutdown_requested \/ mpd_is_sleeping THEN "cancel_idle"
                  ELSE IF select_ret > 0 THEN "recv_lock"
                  ELSE IF select_ret = 0 THEN "timeout_noidle"
                  ELSE "loop")
    /\ select_ret' = 0
    /\ UNCHANGED <<conn, lockVars, recordVars, mpd_ret, song, delay_i,
                   select_elapsed, event_pending, historyVars>>

\* mpd_send_noidle and mpd_response_finish: the answer of the service,
\* pending event included, is read and dropped
CancelIdle ==
    /\ ThreadStep("cancel_idle", "loop")
    /\ conn_mutex = "none"
    /\ event_pending' = IF conn # "null" THEN FALSE ELSE event_pending
    /\ net' = IF conn # "null" THEN Logged("noidle", FALSE) ELSE net
    /\ UNCHANGED <<conn, lockVars, recordVars, localVars, fetchVars>>

TimeoutNoidle ==
    /\ ThreadStep("timeout_noidle", "loop")
    /\ conn_mutex = "none"
    /\ event_pending' = IF conn # "null" /\ ~mpd_is_sleeping THEN FALSE
                        ELSE event_pending
    /\ net' = IF conn # "null" /\ ~mpd_is_sleeping THEN Logged("noidle", FALSE)
              ELSE net
    /\ UNCHANGED <<conn, lockVars, recordVars, localVars, fetchVars>>

\* ret > 0: lock_guard lock(conn_mutex)
RecvLock ==
    /\ ThreadStep("recv_lock", "recv")
    /\ conn_mutex = "none"
    /\ conn_mutex' = "mpd"
    /\ mpd_held' = Append(mpd_held, "conn_mutex")
    /\ UNCHANGED <<conn, data_mutex, recordVars, localVars, event_pending, historyVars>>

\* mpd_recv_idle; on a player event lock.~lock_guard() and updateCurrentSong
Recv ==
    /\ mpd_pc = "recv"
    /\ IF conn = "null"
       THEN /\ ThreadStep("recv", "loop")
            /\ UNCHANGED <<conn, event_pending, mpd_ret, net>>
       ELSE IF conn = "broken"
       THEN /\ ThreadStep("recv", "loop")
            /\ conn' = "null"
            /\ event_pending' = FALSE
            /\ net' = Logged("recv_failed", FALSE)
            /\ UNCHANGED mpd_ret
       ELSE IF event_pending
       THEN /\ ThreadStep("recv", "update_lock")
            /\ event_pending' = FALSE
            /\ mpd_ret' = "scope_exit"
            /\ net' = Logged("recv", FALSE)
            /\ UNCHANGED conn
       ELSE /\ ThreadStep("recv", "loop")
            /\ net' = Logged("recv", FALSE)
            /\ UNCHANGED <<conn, event_pending, mpd_ret>>
    /\ conn_mutex' \in Unlock(conn_mutex, "mpd")
    /\ mpd_held' = <<>>
    /\ UNCHANGED <<data_mutex, recordVars, song, delay_i, select_elapsed,
                   select_ret, fetchVars>>

\* the end of the ret > 0 block after lock.~lock_guard(): the guard is
\* destroyed a second time and unlocks a mutex this thread does not hold
ScopeExit ==
    /\ ThreadStep("scope_exit", "loop")
    /\ conn_mutex' \in Unlock(conn_mutex, "mpd")
    /\ UNCHANGED <<conn, data_mutex, mpd_held, recordVars, localVars, event_pending,
                   historyVars>>

\* disconnectMPD after the loop
FinalDisconnect ==
    /\ ThreadStep("final_disconnect", "done")
    /\ conn_mutex = "none"
    /\ conn' = "null"
    /\ event_pending' = FALSE
    /\ net' = IF conn # "null" THEN Logged("close", FALSE) ELSE net
    /\ UNCHANGED <<lockVars, recordVars, localVars, fetchVars>>

\* the steps of the thread that need no signal to be taken
mpdThreadFunc ==
    \/ LoopTest
    \/ SleepCheck
    \/ SleepDisconnect
    \/ SleepPollExit
    \/ ShutdownCheck
    \/ ConnectLock
    \/ ConnectTry
    \/ DelayRound
    \/ DelayExit
    \/ UpdateLock
    \/ UpdateFetch
    \/ UpdateLockData
    \/ UpdateStore
    \/ UpdateFormat
    \/ UpdateReturn
    \/ IdleSend
    \/ IdleFd
    \/ SelectWait
    \/ SelectReturn
    \/ AfterSelect
    \/ CancelIdle
    \/ TimeoutNoidle
    \/ RecvLock
    \/ Recv
    \/ ScopeExit
    \/ FinalDisconnect

\* a step of the controlling thread inside an MPDClient call
MainStep(from, to) ==
    /\ mpdmain_pc = from
    /\ mpdmain_pc' = to
    /\ UNCHANGED <<mpd_pc, recordVars, localVars, serviceVars, event_pending,
                   historyVars, mpd_held, otherVars>>

\* MPDClient::setSleepState
setSleepState ==
    /\ MainStep("idle", "idle")
    /\ \E sleeping \in BOOLEAN : mpd_is_sleeping' = sleeping
    /\ UNCHANGED <<powerVarsOfAudio, conn, flagVars, conn_mutex, data_mutex,
                   get_field, text_out, connected_out, main_held>>

\* the getters: lock_guard lock(data_mutex)
Getters == {"formatted_text", "title", "artist", "year", "track_number"}
MayLockDataUnguarded(t) == TRUE
MayLockData(t) == data_mutex = "none"
GetterLock ==
    /\ MainStep("idle", "get_copy")
    /\ MayLockData("main")
    /\ data_mutex' = "main"
    /\ main_held' = Append(main_held, "data_mutex")
    /\ \E f \in Getters : get_field' = f
    /\ UNCHANGED <<powerVars, conn, flagVars, conn_mutex, text_out, connected_out>>

\* the getters: the copy of the field that is returned
GetterCopy ==
    /\ MainStep("get_copy", "get_return")
    /\ text_out' = CASE get_field = "formatted_text" -> formatted_text
                     [] get_field = "title" -> title
                     [] get_field = "artist" -> artist
                     [] get_field = "year" -> year
                     [] get_field = "track_number" -> track_number
    /\ UNCHANGED <<powerVars, conn, flagVars, conn_mutex, data_mutex, get_field,
                   connected_out, main_held>>

\* the getters: the guard unlocks, the caller has the copy
GetterReturn ==
    /\ MainStep("get_return", "idle")
    /\ data_mutex' = "none"
    /\ main_held' = <<>>
    /\ get_field' = "none"
    /\ text_out' = <<>>
    /\ UNCHANGED <<powerVars, conn, flagVars, conn_mutex, connected_out>>

\* MPDClient::isConnected
IsConnectedLock ==
    /\ MainStep("idle", "isconnected_read")
    /\ conn_mutex = "none"
    /\ conn_mutex' = "main"
    /\ main_held' = Append(main_held, "conn_mutex")
    /\ UNCHANGED <<powerVars, conn, flagVars, data_mutex, get_field, text_out,
                   connected_out>>

IsConnectedRead ==
    /\ MainStep("isconnected_read", "isconnected_return")
    /\ connected_out' = (conn # "null")
    /\ UNCHANGED <<powerVars, conn, flagVars, conn_mutex, data_mutex, get_field,
                   text_out, main_held>>

IsConnectedReturn ==
    /\ MainStep("isconnected_return", "idle")
    /\ connected_out' = FALSE
    /\ conn_mutex' \in Unlock(conn_mutex, "main")
    /\ main_held' = <<>>
    /\ UNCHANGED <<powerVars, conn, flagVars, data_mutex, get_field, text_out>>

\* MPDClient::stop: shutdown_requested = true
StopShutdown ==
    /\ MainStep("idle", "stop_running")
    /\ mpd_thread_running
    /\ shutdown_requested' = TRUE
    /\ UNCHANGED <<powerVars, conn, mpd_thread_running, conn_mutex, data_mutex,
                   get_field, text_out, connected_out, main_held>>

\* MPDClient::stop: thread_running = false
StopRunning ==
    /\ MainStep("stop_running", "stop_wake")
    /\ mpd_thread_running' = FALSE
    /\ UNCHANGED <<powerVars, conn, shutdown_requested, conn_mutex, data_mutex,
                   get_field, text_out, connected_out, main_held>>

\* MPDClient::stop: setSleepState(false)
StopWake ==
    /\ MainStep("stop_wake", "stop_cancel_lock")
    /\ mpd_is_sleeping' = FALSE
    /\ UNCHANGED <<powerVarsOfAudio, conn, flagVars, conn_mutex, data_mutex,
                   get_field, text_out, connected_out, main_held>>

\* MPDClient::stop: the block that tries to break the idle, its lock
StopCancelLock ==
    /\ MainStep("stop_cancel_lock", "stop_cancel")
    /\ conn_mutex = "none"
    /\ conn_mutex' = "main"
    /\ main_held' = Append(main_held, "conn_mutex")
    /\ UNCHANGED <<powerVars, conn, flagVars, data_mutex, get_field, text_out,
                   connected_out>>

\* MPDClient::stop: noidle on a second connection, which leaves the idle of
\* the first one as it is; the guard unlocks
StopCancel ==
    /\ MainStep("stop_cancel", "stop_join")
    /\ conn_mutex' \in Unlock(conn_mutex, "main")
    /\ main_held' = <<>>
    /\ UNCHANGED <<powerVars, conn, flagVars, data_mutex, get_field, text_out,
                   connected_out>>

\* MPDClient::stop: mpd_thread.join() returns when the thread has finished
StopJoin ==
    /\ MainStep("stop_join", "stop_disconnect")
    /\ mpd_pc = "done"
    /\ UNCHANGED <<powerVars, conn, flagVars, conn_mutex, data_mutex, get_field,
                   text_out, connected_out, main_held>>

\* MPDClient::stop: disconnectMPD()
StopDisconnect ==
    /\ MainStep("stop_disconnect", "stopped")
    /\ conn_mutex = "none"
    /\ conn' = "null"
    /\ UNCHANGED <<powerVars, flagVars, conn_mutex, data_mutex, get_field, text_out,
                   connected_out, main_held>>

\* the steps that finish a call the controlling thread is in
MainContinues ==
    \/ GetterCopy
    \/ GetterReturn
    \/ IsConnectedRead
    \/ IsConnectedReturn
    \/ StopRunning
    \/ StopWake
    \/ StopCancelLock
    \/ StopCancel
    \/ StopJoin
    \/ StopDisconnect

\* the MPD service: it goes away, comes back, and changes the song
ServiceStep ==
    /\ UNCHANGED <<mpd_pc, flagVars, lockVars, recordVars, localVars, mainCallVars,
                   historyVars, powerVars, otherVars>>

ServiceDown ==
    /\ service_up
    /\ service_up' = FALSE
    /\ conn' = IF conn = "open" THEN "broken" ELSE conn
    /\ event_pending' = FALSE
    /\ UNCHANGED service_song
    /\ ServiceStep

ServiceUp ==
    /\ ~service_up
    /\ service_up' = TRUE
    /\ UNCHANGED <<service_song, conn, event_pending>>
    /\ ServiceStep

SongChange ==
    /\ service_up
    /\ \E s \in {NoSong, SongA, SongB} \ {service_song} : service_song' = s
    /\ event_pending' = (conn = "open")
    /\ UNCHANGED <<service_up, conn>>
    /\ ServiceStep

\* the client with the default record, the service in state up with song s,
\* the connection c, the thread at pc; stopped: after stop(), else after start()
InitMpdState(up, s, c, pc, stopped) ==
    /\ conn = c
    /\ mpd_thread_running = ~stopped
    /\ shutdown_requested = stopped
    /\ conn_mutex = "none"
    /\ data_mutex = "none"
    /\ track_number = DefaultRecord.track_number
    /\ title = DefaultRecord.title
    /\ artist = DefaultRecord.artist
    /\ year = DefaultRecord.year
    /\ formatted_text = updateFormattedText(DefaultRecord)
    /\ mpd_pc = pc
    /\ mpd_ret = "idle_send"
    /\ song = NoSong
    /\ delay_i = 0
    /\ select_elapsed = 0
    /\ select_ret = 0
    /\ service_up = up
    /\ service_song = s
    /\ event_pending = FALSE
    /\ mpdmain_pc = IF stopped THEN "stopped" ELSE "idle"
    /\ get_field = "none"
    /\ text_out = <<>>
    /\ connected_out = FALSE
    /\ fetched = FALSE
    /\ last_fetch = NoSong
    /\ net = [last |-> "none", idle_out |-> FALSE]
    /\ mpd_held = <<>>
    /\ main_held = <<>>

\* after the constructor and start()
InitMpdIn(up, s, c, pc) == InitMpdState(up, s, c, pc, FALSE)

InitMpdAt(up, s) == InitMpdIn(up, s, "null", "loop")

InitMpd == InitMpdAt(FALSE, NoSong)

InitPower == InitPowerAt(FALSE, SENSITIVITY_DEFAULT, NOISE_REDUCTION_DEFAULT)

Init == InitPower /\ InitRing /\ InitSpectrum /\ InitStereo /\ InitAccess /\ InitMpd /\ InitHandle /\ InitParameters

\* the encoders do not move in the power model
Next ==
    \/ RunStart
    \/ MainIteration({0})
    \/ RunExit
    \/ CaptureSense
    \/ Tick

Spec == Init /\ [][Next]_vars

NextTimed ==
    \/ RunStart
    \/ MainIteration({0})
    \/ RunExit
    \/ CaptureSense
    \/ TickInCadence

SpecTimed == Init /\ [][NextTimed]_vars

\* the ring buffer model starts where run has started the capture thread
InitStarted ==
    /\ InitPowerAt(TRUE, SENSITIVITY_DEFAULT, NOISE_REDUCTION_DEFAULT)
    /\ InitRing
    /\ InitSpectrum
    /\ InitStereo /\ InitAccess /\ InitMpd /\ InitHandle /\ InitParameters

NextRing ==
    \/ CaptureRead
    \/ CaptureExit
    \/ CaptureBranch
    \/ CaptureLock
    \/ CaptureWrite
    \/ CaptureCommit
    \/ CaptureSenseAwake
    \/ ReaderLock
    \/ ReaderCopy
    \/ ReaderUnlock
    \/ SetSleepState
    \/ StopRequest

SpecRing == InitStarted /\ [][NextRing]_vars

\* the spectrum model starts at any time of a run: the parameters are ones
\* the encoders can have set, the smoothing state is any level
InitAnalysing ==
    /\ \E sens \in {SENSITIVITY_MIN, SENSITIVITY_DEFAULT, SENSITIVITY_MAX},
          nr \in {NOISE_REDUCTION_MIN, NOISE_REDUCTION_DEFAULT, NOISE_REDUCTION_MAX} :
         InitPowerAt(TRUE, sens, nr)
    /\ InitRing
    /\ InitSpectrumAny
    /\ InitStereo /\ InitAccess /\ InitMpd /\ InitHandle /\ InitParameters

NextSpectrum ==
    \/ getSpectrumData
    \/ ParameterPoll

SpecSpectrum == InitAnalysing /\ [][NextSpectrum]_vars

\* silence: any noise_reduction the setter accepts, any smoothing state, and
\* the control loop drawing the spectrum again and again
InitSilence ==
    /\ \E nr \in NOISE_REDUCTION_MIN .. NOISE_REDUCTION_MAX :
         InitPowerAt(TRUE, SENSITIVITY_DEFAULT, nr)
    /\ InitRing
    /\ InitSpectrumComplementary
    /\ InitStereo /\ InitAccess /\ InitMpd /\ InitHandle /\ InitParameters

NextSilence == getSpectrumDataSilent

\* the stereo model starts with a window of frames in the ring
InitStereoWindow ==
    /\ InitPowerAt(TRUE, SENSITIVITY_DEFAULT, NOISE_REDUCTION_DEFAULT)
    /\ InitRingWindow
    /\ InitSpectrum
    /\ InitStereo /\ InitAccess /\ InitMpd /\ InitHandle /\ InitParameters

NextStereo == getStereoAnalysis

SpecStereo == InitStereoWindow /\ [][NextStereo]_vars

SpecSilence == InitSilence /\ [][NextSilence]_vars /\ WF_vars(getSpectrumDataSilent)

\* the MPD client model starts where main has constructed and started the
\* client; the service is up or down, with no song or one
InitMpdStarted ==
    /\ InitPowerAt(TRUE, SENSITIVITY_DEFAULT, NOISE_REDUCTION_DEFAULT)
    /\ InitRing
    /\ InitSpectrum
    /\ InitStereo /\ InitAccess
    /\ \E up \in BOOLEAN, s \in {NoSong, SongA} : InitMpdAt(up, s)
    /\ InitHandle /\ InitParameters

NextMpd ==
    \/ mpdThreadFunc
    \/ SelectInterrupted
    \/ setSleepState
    \/ GetterLock
    \/ IsConnectedLock
    \/ StopShutdown
    \/ MainContinues
    \/ ServiceDown
    \/ ServiceUp
    \/ SongChange

\* the stop model: the capture thread with its loop test and its read as two
\* steps, the sleep requests of the control loop, and AudioProcessor::stop;
\* the thread is scheduled and the calls of ALSA return
NextStop ==
    \/ CaptureLoopTest
    \/ CaptureReadi
    \/ CaptureExit
    \/ CaptureBranch
    \/ CaptureLock
    \/ CaptureWrite
    \/ CaptureCommit
    \/ CaptureSenseAwake
    \/ SetSleepState
    \/ StopRequest
    \/ AudioStopJoin
    \/ AudioStopClose

captureThread ==
    \/ CaptureLoopTest
    \/ CaptureReadi
    \/ CaptureExit
    \/ CaptureBranch
    \/ CaptureLock
    \/ CaptureWrite
    \/ CaptureCommit
    \/ CaptureSenseAwake

SpecStop ==
    InitStarted /\ [][NextStop]_vars
    /\ WF_vars(captureThread) /\ WF_vars(AudioStopJoin) /\ WF_vars(AudioStopClose)

\* the parameter model: setter calls with any argument, in any order, and
\* the call of getSpectrumData that follows them
NextParameters ==
    \/ setSensitivityCall
    \/ setNoiseReductionCall
    \/ getSpectrumData

SpecParameters == InitAnalysing /\ [][NextParameters]_vars

\* a tone in the window from the start, the default parameters
NextTone == getSpectrumDataTone

SpecTone == InitStarted /\ [][NextTone]_vars

\* the capture thread step by step, with blocks that peak around the silence
\* threshold, the clock, and the main thread setting and clearing the flag
NextCapture ==
    \/ CaptureLoopTest
    \/ CaptureReadiLevels
    \/ CaptureBranch
    \/ CaptureLock
    \/ CaptureWrite
    \/ CaptureCommit
    \/ CaptureSenseAwake
    \/ SetSleepState
    \/ Tick

SpecCapture == InitStarted /\ [][NextCapture]_vars

\* start(), the engine once it is started, stop() and the destructor
NextStart ==
    \/ RunStart
    \/ handle_log.start = "ok" /\ NextStop
    \/ AudioDestroy

SpecStart == Init /\ [][NextStart]_vars

\* the two background threads, each with the other one not running: the MPD
\* thread between initialize() and audio.start(), and the capture thread
\* after the destructor of the application, called from the signal handler
\* during run(), has stopped the MPD client.  The threads share no variable.
InitSubsystems ==
    \/ /\ InitPower
       /\ InitRing
       /\ InitSpectrum
       /\ InitStereo /\ InitAccess
       /\ \E up \in BOOLEAN, s \in {NoSong, SongA} : InitMpdAt(up, s)
       /\ InitHandle /\ InitParameters
    \/ /\ InitPowerAt(TRUE, SENSITIVITY_DEFAULT, NOISE_REDUCTION_DEFAULT)
       /\ InitRing
       /\ InitSpectrum
       /\ InitStereo /\ InitAccess
       /\ InitMpdState(FALSE, NoSong, "null", "done", TRUE)
       /\ InitHandle /\ InitParameters

NextSubsystems == NextStop \/ NextMpd

SpecSubsystems == InitSubsystems /\ [][NextSubsystems]_vars

\* the formatting model: the updateCurrentSong that follows a connect, for
\* every song the service can report, and the getters
InitFormatting ==
    /\ InitPowerAt(TRUE, SENSITIVITY_DEFAULT, NOISE_REDUCTION_DEFAULT)
    /\ InitRing
    /\ InitSpectrum
    /\ InitStereo /\ InitAccess
    /\ \E s \in Songs \cup {NoSong} : InitMpdIn(TRUE, s, "open", "update_lock")
    /\ InitHandle /\ InitParameters

NextFormatting ==
    \/ UpdateLock
    \/ UpdateFetch
    \/ UpdateLockData
    \/ UpdateStore
    \/ UpdateFormat
    \/ UpdateReturn
    \/ GetterLock
    \/ GetterCopy
    \/ GetterReturn

SpecFormatting == InitFormatting /\ [][NextFormatting]_vars

\* both threads are scheduled and time passes; no signal, no call of the
\* controlling thread and no step of the service is forced
SpecMpd ==
    InitMpdStarted /\ [][NextMpd]_vars
    /\ WF_vars(mpdThreadFunc) /\ WF_vars(MainContinues)

\* the same, and a thread that waits for a mutex gets it when the mutex is
\* released again and again: the controlling thread holds data_mutex and
\* conn_mutex for the length of a copy, once per frame it renders
SpecMpdFair ==
    InitMpdStarted /\ [][NextMpd]_vars
    /\ SF_vars(mpdThreadFunc) /\ WF_vars(MainContinues)


(***************************************************************************)
(* Claims about the power state coordinator.                               *)
(***************************************************************************)

\* C1: Awake->Asleep is edge-triggered.  An iteration whose poll sees no
\* button press and that finds the audio absent executes the sleep-entry
\* actions if and only if the state was Awake; no iteration that finds audio
\* executes them.  In an execution of the control loop in which no button is
\* pressed, an audio-absent iteration executes them (all three sleep flags
\* set) if and only if it is the first of a run of such iterations.
C1_SleepEntryEdgeTriggered ==
    obs.iterated =>
        /\ obs.entered => ~obs.has_audio
        /\ (~obs.press /\ ~obs.has_audio) => (obs.entered <=> ~obs.asleep_at_start)
        /\ ~obs.pressed_ever =>
            /\ obs.entered => state.is_sleeping /\ audio_is_sleeping /\ mpd_is_sleeping
            /\ ~obs.has_audio => (obs.entered <=> ~obs.prev_silent)

\* a second consecutive audio-absent iteration, which did not enter sleep again
C1_Witness ==
    /\ obs.iterated /\ ~obs.pressed_ever
    /\ ~obs.has_audio /\ obs.prev_silent
    /\ ~obs.entered /\ state.is_sleeping

\* C2: a press of rotary button 1 or 2 seen by poll while the power state
\* is Asleep leaves the power state Awake at the end of that iteration,
\* whatever checkForAudio() returns.
C2_PressWakes ==
    (obs.iterated /\ ((obs.press /\ obs.asleep_at_start) \/ obs.press_late))
        => ~state.is_sleeping

\* C3: at the end of every iteration of the control loop, before shutdown,
\* the three sleep flags (ControlState, AudioProcessor, MPDClient) are equal.
C3_FlagsAgree ==
    (main_pc = "loop" /\ state.running) =>
        /\ audio_is_sleeping = state.is_sleeping
        /\ mpd_is_sleeping = state.is_sleeping

\* C4: with no button pressed and the control loop keeping its cadence:
\* once 11 seconds have passed without a block above the threshold, the
\* loop having run since before the timeout, the state is Asleep and exactly
\* one Awake->Asleep transition has occurred since the last loud block;
\* after a loud block captured while Asleep, exactly one Asleep->Awake
\* transition occurs, and it has occurred by the end of the first
\* control-loop iteration that follows the capture of that block.
C4_SilenceThenTransient ==
    ~obs.pressed_ever =>
        /\ ( /\ main_pc = "loop" /\ state.running
             /\ since_loud.watched
             /\ now - last_audio_time >= LongSilence )
           => (state.is_sleeping /\ since_loud.sleeps = 1)
        /\ (since_loud.asleep_at_loud /\ since_loud.iters >= 1)
           => since_loud.wakes = 1

\* 11 seconds of silence, asleep, a loud block, and the wake of the next iteration
C4_Witness ==
    /\ ~obs.pressed_ever
    /\ since_loud.after_long_silence /\ since_loud.asleep_at_loud
    /\ since_loud.iters = 1 /\ since_loud.wakes = 1
    /\ ~state.is_sleeping /\ ~audio_is_sleeping

\* C5: checkForAudio() is true exactly when less than 10 seconds have
\* elapsed since last_audio_time, the seconds being real (untruncated) time.
C5_CheckForAudioTimeout ==
    checkForAudio(now, last_audio_time)
        <=> (now - last_audio_time < SLEEP_TIMEOUT_SEC * TicksPerSec)

\* the control loop has just read checkForAudio() at exactly 10 seconds: false
C5_Witness ==
    /\ main_ran /\ obs.iterated /\ ~obs.has_audio
    /\ now - last_audio_time = SLEEP_TIMEOUT_SEC * TicksPerSec

(***************************************************************************)
(* Claims about the ring buffer.                                           *)
(***************************************************************************)

\* the samples a waveform snapshot returned (one channel)
OutValues == IF out.req.left_channel THEN out.left ELSE out.right

\* C6: no torn reads.  While a snapshot call is inside its critical
\* section the capture thread is not, the arrays and write_pos are those
\* left by the last completed capture iteration (no block partly written,
\* no block written with write_pos still behind it), and what the call
\* has copied is the window of that state ending at its write_pos.
C6_NoTornRead ==
    /\ Cardinality(buffer_mutex) <= 1
    /\ "main" \in buffer_mutex => Ring = committed
    /\ reader_pc = "unlock" =>
        /\ Len(out.slots) = out.req.samples
        /\ \A i \in DOMAIN out.slots :
               out.slots[i] =
                   (committed.write_pos + 2 * Capacity - out.req.samples + i - 1)
                       % Capacity
        /\ \A i \in DOMAIN out.left :
               out.left[i] = committed.left[out.slots[i]]
        /\ \A i \in DOMAIN out.right :
               out.right[i] = committed.right[out.slots[i]]

\* a spectrum snapshot has been copied while the capture thread, with a block
\* in hand, waits for the mutex
C6_Witness ==
    /\ reader_pc = "unlock"
    /\ out.req.kind = "spectrum"
    /\ capture_pc = "lock"
    /\ Len(audio_buffer) > 0
    /\ Len(written) > 0

\* C7: ring buffer round trip.  A waveform snapshot of n samples,
\* n < capacity, taken when the capture loop has written at least n
\* frames, returns the last n samples written to the requested channel,
\* unmodified and oldest first, wherever in the array they lie.
C7_RoundTrip ==
    ( /\ out.req.kind = "waveform"
      /\ out.req.samples < Capacity
      /\ out.req.samples <= out.at )
    => /\ Len(OutValues) = out.req.samples
       /\ \A i \in 1 .. out.req.samples :
              OutValues[i] = written[out.at - out.req.samples + i]
                                    [IF out.req.left_channel THEN 1 ELSE 2]

\* a snapshot of the right channel whose window wraps around the end of the
\* array, taken after more than one capture iteration
C7_Witness ==
    /\ out.req.kind = "waveform"
    /\ ~out.req.left_channel
    /\ out.req.samples = Capacity - 1
    /\ out.req.samples <= out.at
    /\ out.slots[1] > out.slots[Len(out.slots)]

\* C8: write_pos is always in [0, capacity); when a capture iteration
\* has written its N frames and stored write_pos, write_pos is the old
\* write_pos plus N modulo the capacity, the N slots from the old write_pos
\* on hold the N frames in order and differ from what they held, and every
\* other slot is unchanged.
C8_WritePosAdvance ==
    /\ write_pos \in Slots
    /\ capture_pc = "sense" =>
        LET N == Len(audio_buffer)
            old == committed.write_pos
            touched == {(old + k) % Capacity : k \in 0 .. (N - 1)}
        IN  /\ write_pos = (old + N) % Capacity
            /\ Cardinality(touched) = N
            /\ \A k \in 0 .. (N - 1) :
                   /\ circular_buffer_left[(old + k) % Capacity]
                          = audio_buffer[k + 1][1]
                   /\ circular_buffer_right[(old + k) % Capacity]
                          = audio_buffer[k + 1][2]
            /\ \A s \in touched :
                   /\ circular_buffer_left[s] # committed.left[s]
                   /\ circular_buffer_right[s] # committed.right[s]
            /\ \A s \in Slots \ touched :
                   /\ circular_buffer_left[s] = committed.left[s]
                   /\ circular_buffer_right[s] = committed.right[s]

\* a full block has been written across the end of the array
C8_Witness ==
    /\ capture_pc = "sense"
    /\ Len(audio_buffer) = FRAMES_PER_BUFFER
    /\ write_pos < committed.write_pos

\* C9: a waveform snapshot asked for more samples than the capacity
\* returns at most capacity samples and no stored slot twice.
C9_OversizeClamped ==
    (out.req.kind = "waveform" /\ out.req.samples > Capacity) =>
        /\ Len(OutValues) <= Capacity
        /\ \A i, j \in DOMAIN out.slots :
               i # j => out.slots[i] # out.slots[j]

(***************************************************************************)
(* Claims about the spectrum analyser.                                     *)
(***************************************************************************)

\* C10: whatever the band magnitudes, the parameters and the smoothing
\* state, each of the 14 values written by getSpectrumData (left_out[0..6],
\* right_out[0..6]) is an integer in [0, 255].
C10_SpectrumOutputsAreBytes ==
    \A i \in Bands :
        /\ left_out[i] \in 0 .. 255
        /\ right_out[i] \in 0 .. 255

\* a call has clamped a left level above 255 and given 0 for a right level
\* below 1 that is not zero
C10_Witness ==
    /\ spectrum_calls > 0
    /\ \E i \in Bands :
           /\ prev_left_spectrum[i] >= 256 * LEVEL_DEN
           /\ left_out[i] = 255
    /\ \E i \in Bands :
           /\ prev_right_spectrum[i] > 0
           /\ right_out[i] = 0

\* C11: under silence, for every noise_reduction in [0, 100] and from any
\* smoothing state, each band's smoothed level does not increase from call
\* to call and is never negative, and after finitely many calls every
\* output level is 0 and stays 0.
C11_SilenceDecays ==
    /\ [][\A i \in Bands :
              /\ prev_left_spectrum'[i] <= prev_left_spectrum[i]
              /\ prev_right_spectrum'[i] <= prev_right_spectrum[i]
              /\ prev_left_spectrum'[i] >= 0
              /\ prev_right_spectrum'[i] >= 0]_vars
    /\ <>[](\A i \in Bands : left_out[i] = 0 /\ right_out[i] = 0)

\* at the slowest decay (noise_reduction 100) the outputs have come down to
\* 0 with a left level still above 0 and below 1
C11_Witness ==
    /\ noise_reduction = NOISE_REDUCTION_MAX
    /\ spectrum_calls > MaxCalls
    /\ \A i \in Bands : left_out[i] = 0 /\ right_out[i] = 0
    /\ \E i \in Bands : prev_left_spectrum[i] > 0

(***************************************************************************)
(* Claims about the stereo analyser.                                       *)
(***************************************************************************)

\* C12: getStereoAnalysis returns a correlation in [-1, 1]; when the
\* denominator is not strictly positive, and in particular when either
\* channel is constant over the window, the correlation is exactly 0.
C12_CorrelationRangeAndZero ==
    stereo.calls > 0 =>
        /\ stereo.correlation \in (-1000) .. 1000
        /\ ( \/ ~stereo.den_positive
             \/ \A i, j \in DOMAIN stereo.left : stereo.left[i] = stereo.left[j]
             \/ \A i, j \in DOMAIN stereo.right : stereo.right[i] = stereo.right[j] )
           => stereo.correlation = 0

\* C13: the phase is the sum of the angles of the qualifying samples
\* divided by the number of qualifying samples, and 0 when none qualifies.
C13_PhaseIsMeanOverQualifying ==
    stereo.calls > 0 =>
        stereo.phase = PhaseOfMeanOverQualifying(stereo.left, stereo.right)

(***************************************************************************)
(* MPD track metadata                                                      *)
(***************************************************************************)
\* the text of the two songs of the thread model, spelled out
C14_TextOf(s) ==
    CASE s = SongA -> <<"0", "1", ". ", "Title", " - ", "Artist",
                        " (", "1", "9", "9", "9", ")">>
      [] s = SongB -> <<"1", "0", ". ", "Unknown Title", " - ", "Other">>
      [] OTHER -> <<"No song playing">>

\* C14: the value getFormattedText returns is "Waiting for MPD..." before the
\* first fetch has been stored, the formatted string of the fetched track
\* after a fetch of an active track, and "No song playing" after a fetch
\* without an active track, whatever disconnects and reconnects happened
C14_FormattedTextFollowsFetch ==
    (mpdmain_pc = "get_return" /\ get_field = "formatted_text") =>
        text_out = IF ~fetched THEN <<"Waiting for MPD...">>
                   ELSE C14_TextOf(last_fetch)

\* getFormattedText returns the track's text after the connection was lost
C14_Witness ==
    /\ mpdmain_pc = "get_return" /\ get_field = "formatted_text"
    /\ fetched /\ last_fetch = SongA
    /\ conn = "null" /\ ~service_up
    /\ text_out = C14_TextOf(SongA)

\* C15: while the service is unreachable (a connection attempt has failed
\* and the thread is in its reconnect delay) the formatted text is a
\* placeholder, never the text of a track fetched before
C15_OutageShowsPlaceholder ==
    (mpd_pc = "delay" /\ ~service_up /\ data_mutex = "none") =>
        formatted_text \in {<<"Waiting for MPD...">>, <<"No song playing">>,
                            <<"Unknown Title">>}

\* the digits of a position, padded to two
C16_Digit(d) == <<"0", "1", "2", "3", "4", "5", "6", "7", "8", "9">>[d + 1]
C16_Number(n) ==
    IF n < 100 THEN <<C16_Digit(n \div 10), C16_Digit(n % 10)>>
    ELSE <<C16_Digit(n \div 100), C16_Digit((n \div 10) % 10), C16_Digit(n % 10)>>

\* "NN. Title - Artist (Year)" of song s, a missing title shown as untitled
C16_Text(s, untitled) ==
    IF ~s.active THEN <<"No song playing">>
    ELSE C16_Number(s.pos + 1) \o <<". ">>
         \o (IF s.title.null THEN untitled ELSE s.title.text)
         \o (IF s.artist.null THEN <<>> ELSE <<" - ">> \o s.artist.text)
         \o (IF s.date.null \/ Len(s.date.text) < 4 THEN <<>>
             ELSE <<" (">> \o SubSeq(s.date.text, 1, 4) \o <<")">>)

\* C16 as stated: the text of a fetched song is "NN. Title - Artist (Year)"
\* with every missing component left out and nothing put in its place
C16_MissingComponentsOmitted ==
    (fetched /\ data_mutex = "none") => formatted_text = C16_Text(last_fetch, <<>>)

\* C16: the text of a fetched song is "NN. Title - Artist (Year)", NN the
\* 1-based position padded to two digits, a missing artist or year left out
\* with its separator, a missing title shown as "Unknown Title"
C16_MissingTitleIsUnknownTitle ==
    (fetched /\ data_mutex = "none") =>
        formatted_text = C16_Text(last_fetch, <<"Unknown Title">>)

\* a first song without a title tag, with artist and year
C16_Witness ==
    /\ fetched /\ data_mutex = "none"
    /\ last_fetch.active /\ last_fetch.title.null /\ ~last_fetch.artist.null
    /\ formatted_text = <<"0", "1", ". ", "Unknown Title", " - ", "Artist",
                          " (", "2", "0", "0", "1", ")">>

\* C17: whenever data_mutex is free the formatted text is the formatting of
\* the four fields, and what getFormattedText returns is the formatting of
\* the four fields as they are while the getter holds the mutex
C17_TextMatchesFields ==
    /\ data_mutex = "none" => formatted_text = updateFormattedText(Record)
    /\ (mpdmain_pc = "get_return" /\ get_field = "formatted_text") =>
           text_out = updateFormattedText(Record)

\* the getter returns while the thread waits with a new song for data_mutex
C17_Witness ==
    /\ mpdmain_pc = "get_return" /\ get_field = "formatted_text"
    /\ mpd_pc = "update_lock_data" /\ song # last_fetch /\ fetched
    /\ text_out = updateFormattedText(Record)

\* C18: once stop() has requested the shutdown the thread leaves its loop,
\* join returns and stop() ends with conn null; join never returns before
\* the thread has finished; the idle wait never exceeds its timeout
C18_StopTerminates ==
    /\ shutdown_requested ~> (mpdmain_pc = "stopped" /\ mpd_pc = "done" /\ conn = "null")
    /\ [](mpdmain_pc \in {"stop_disconnect", "stopped"} => mpd_pc = "done")
    /\ [](mpdmain_pc = "stopped" => conn = "null")
    /\ [](select_elapsed <= SELECT_TIMEOUT_TICKS)

\* stop() waits in join while the thread is in its idle wait
C18_Witness ==
    mpdmain_pc = "stop_join" /\ mpd_pc = "select" /\ ~Readable /\ select_elapsed = 0

\* the MPD thread waits for a mutex
MpdWaitsForMutex ==
    /\ mpd_pc \in {"sleep_disconnect", "connect", "update_lock", "update_lock_data",
                    "idle_send", "idle_fd", "cancel_idle", "timeout_noidle",
                    "recv_lock", "final_disconnect"}
    /\ ~ENABLED mpdThreadFunc

\* the controlling thread waits for a mutex or for the thread to finish
MainWaits ==
    /\ mpdmain_pc \in {"stop_cancel_lock", "stop_join", "stop_disconnect"}
    /\ ~ENABLED MainContinues

\* C20: no deadlock: a thread that waits for a mutex waits for one the other
\* thread holds inside a call it can go on with, the controlling thread never
\* waits for a thread that cannot go on, and a thread that holds conn_mutex
\* and data_mutex together has locked conn_mutex first
C20_NoDeadlockAndLockOrder ==
    /\ MpdWaitsForMutex => ENABLED MainContinues
    /\ MainWaits => ENABLED mpdThreadFunc
    /\ (conn_mutex = "mpd" \/ data_mutex = "mpd") =>
           (ENABLED mpdThreadFunc \/ ENABLED MainContinues)
    /\ (conn_mutex = "mpd" /\ data_mutex = "mpd") =>
           mpd_held = <<"conn_mutex", "data_mutex">>
    /\ (conn_mutex = "main" /\ data_mutex = "main") =>
           main_held = <<"conn_mutex", "data_mutex">>

\* the thread holds both mutexes while the controlling thread is in stop()
C20_Witness ==
    /\ conn_mutex = "mpd" /\ data_mutex = "mpd"
    /\ mpd_held = <<"conn_mutex", "data_mutex">>
    /\ mpdmain_pc = "stop_cancel_lock"

(***************************************************************************)
(* AudioProcessor::stop                                                    *)
(***************************************************************************)
\* C19: once stop() has cleared thread_running the capture thread issues at
\* most the read it was about to issue and then ends, also when every read
\* fails; stop() closes the handle only when the thread has ended, and the
\* thread never is about to read from a handle that is not open
C19_StopJoinsBeforeClose ==
    /\ (~thread_running) ~> (capture_pc = "done")
    /\ (~thread_running) ~> (main_pc = "closed" /\ pcm_handle = "null")
    /\ [](reads_after_stop <= 1)
    /\ [](pcm_handle # "open" => capture_pc = "done")
    /\ [](capture_pc = "readi" => pcm_handle = "open")

\* stop() waits in join while the thread, past its loop test, is about to read
C19_Witness ==
    main_pc = "stopped" /\ ~thread_running /\ capture_pc = "readi" /\ pcm_handle = "open"

(***************************************************************************)
(* Mutexes and blocking calls                                              *)
(***************************************************************************)
\* C21: the capture thread holds buffer_mutex only while it copies a block it
\* has read, never at the loop test or in the read and recover calls; the
\* MPD thread holds data_mutex only while it stores and formats a fetched
\* record, never in connect, fetch, idle, select, the reconnect delay or the
\* sleep poll; so a getter that is not inside a call finds data_mutex free
\* whenever the MPD thread is in one of these
C21_NoMutexAcrossBlockingCall ==
    /\ "capture" \in buffer_mutex => capture_pc \in {"write", "sense"}
    /\ capture_pc \in {"read", "readi", "branch", "lock", "done"} => buffer_mutex = {}
    /\ data_mutex = "mpd" => mpd_pc \in {"update_store", "update_format", "update_return"}
    /\ (mpd_pc \in {"connect", "connect_try", "delay", "sleep_poll", "update_lock",
                     "update_fetch", "idle_send", "idle_fd", "select", "after_select",
                     "cancel_idle", "timeout_noidle", "recv_lock", "recv"}
        /\ mpdmain_pc = "idle") => data_mutex = "none"

\* the getter has its copy while the thread is about to fetch over a
\* connection whose peer is gone
C21_Witness ==
    /\ mpd_pc = "update_fetch" /\ conn = "broken"
    /\ mpdmain_pc = "get_return" /\ data_mutex = "main"

(***************************************************************************)
(* Parameters of the analyser                                              *)
(***************************************************************************)
\* the levels of one call, from the parameters by the formulas of the factors
C22_Levels(prev, rms) ==
    [i \in Bands |-> Smooth(prev[i], BandLevel(rms, sensitivity, i), noise_reduction)]

\* C22: after any setter calls sensitivity is in [10, 300], noise_reduction in
\* [0, 100], the stored factors are integral = noise / 100 * 0.95 (in 1/2000),
\* gravity = max(0.2, 1 - noise / 100 * 0.8) and scale = sensitivity / 100 *
\* 2.2 (in 1/1000) of the current parameters, and a call of getSpectrumData
\* smooths with the factors of the current parameters
C22_ParametersAndFactors ==
    /\ [](/\ sensitivity >= 10 /\ sensitivity <= 300
          /\ noise_reduction >= 0 /\ noise_reduction <= 100
          /\ factors.integral_factor * 100 = noise_reduction * 1900
          /\ factors.gravity_factor * 100 = Max(20000, 100000 - noise_reduction * 800)
          /\ factors.scale_factor * 100 = sensitivity * 2200
          /\ factors.integral_factor >= 0 /\ factors.integral_factor <= 1900
          /\ factors.gravity_factor >= 200 /\ factors.gravity_factor <= 1000)
    /\ [][spectrum_calls' # spectrum_calls =>
             \E rms_left, rms_right \in RmsLevels :
                /\ prev_left_spectrum' = C22_Levels(prev_left_spectrum, rms_left)
                /\ prev_right_spectrum' = C22_Levels(prev_right_spectrum, rms_right)]_vars

\* both setters were called with arguments out of range, then the spectrum
C22_Witness ==
    /\ sensitivity = 300 /\ noise_reduction = 0 /\ spectrum_calls = 1
    /\ factors = [integral_factor |-> 0, gravity_factor |-> 1000, scale_factor |-> 6600]

\* C23: with the defaults a 1 kHz tone has its bin, 1000 * 8192 / 44100, in
\* the bin range of band index 3 (900 to 2000 Hz) and of no other band, and
\* no band has a higher level than band 3, in the smoothing state and in the
\* outputs, of either channel
C23_ToneIsHighestInBand3 ==
    /\ \A i \in Bands : (low_idx(i) <= ToneBin /\ ToneBin < high_idx(i)) <=> i = 3
    /\ \A i \in Bands :
         /\ prev_left_spectrum[i] <= prev_left_spectrum[3]
         /\ prev_right_spectrum[i] <= prev_right_spectrum[3]
         /\ left_out[i] <= left_out[3]
         /\ right_out[i] <= right_out[3]

\* a call has seen the tone: band 3 is up in both channels, below the clamp
\* in one of them, and the band below it has a level from the leakage
C23_Witness ==
    /\ spectrum_calls = 1
    /\ sensitivity = SENSITIVITY_DEFAULT /\ noise_reduction = NOISE_REDUCTION_DEFAULT
    /\ left_out[3] > 0 /\ left_out[3] < 255
    /\ right_out[3] = 255
    /\ prev_right_spectrum[2] > 0

\* C29: getSpectrumData never divides by zero when it averages a band: each
\* of the seven bands has a positive number of bins, high_idx - low_idx with
\* idx = freq * 8192 / 44100 in int, and its high_idx is at most
\* FFT_SIZE_BASS / 2, so the loop adds exactly the bins the sum is divided by,
\* and the levels of the bands are numbers, not negative
C29_BandsHaveBins ==
    \A i \in Bands :
        /\ low_idx(i) >= 0
        /\ high_idx(i) - low_idx(i) > 0
        /\ high_idx(i) <= FFT_SIZE \div 2
        /\ prev_left_spectrum[i] >= 0 /\ prev_right_spectrum[i] >= 0

\* a call has averaged the seven bands of both channels
C29_Witness ==
    /\ spectrum_calls = 1
    /\ left_out[3] = 255 /\ right_out[3] = 255
    /\ \A i \in Bands \ {3} : left_out[i] = 0 /\ right_out[i] = 0

(***************************************************************************)
(* Claims about the capture thread.                                        *)
(***************************************************************************)

\* C24: while the sleep flag of the capture engine is set, from the return of
\* setSleepState(true) to the call of setSleepState(false), no step of the
\* capture thread changes circular_buffer_left, circular_buffer_right or
\* write_pos
C24_RingFrozenWhileAsleep ==
    [][(audio_is_sleeping /\ audio_is_sleeping') =>
           UNCHANGED <<circular_buffer_left, circular_buffer_right, write_pos>>]_vars

\* the step that ends an iteration which has a block: the continue of the
\* Asleep branch or the end of the loop body
C25_IterationEnds ==
    /\ capture_pc \in {"branch", "sense"}
    /\ capture_pc' = "read"

\* C25: every capture iteration that obtains a block, Awake or Asleep, sets
\* last_audio_time to the current time if the peak of the block over both
\* channels is strictly above the silence threshold and leaves it unchanged
\* otherwise; no other step of the capture thread changes it
C25_LastAudioTimeFollowsPeak ==
    [][/\ C25_IterationEnds =>
            IF FrameMax(audio_buffer) * SILENCE_THRESHOLD_DEN
                   > SILENCE_THRESHOLD_NUM * SAMPLE_DEN
            THEN last_audio_time' = now
            ELSE last_audio_time' = last_audio_time
       /\ ~C25_IterationEnds => last_audio_time' = last_audio_time]_vars

\* an Asleep iteration has refreshed last_audio_time after an Awake iteration
\* has written a quiet block
C25_Witness ==
    /\ audio_is_sleeping /\ capture_pc = "read"
    /\ max_amplitude = 33 /\ last_audio_time = now /\ now > 0
    /\ Len(written) > 0

\* C26: a capture iteration whose read and recovery both fail changes
\* nothing, the ring arrays, write_pos, max_amplitude and last_audio_time are
\* as they were, and the thread is at the top of its loop
C26_FailedReadChangesNothing ==
    /\ [][(capture_pc = "readi" /\ capture_pc' # "readi" /\ last_read' = "failed") =>
             /\ capture_pc' = "read"
             /\ UNCHANGED <<circular_buffer_left, circular_buffer_right, write_pos,
                            max_amplitude, last_audio_time>>]_vars
    /\ [](last_read = "failed" => capture_pc \in {"read", "readi"})

\* a read has failed after a loud block was written: the thread is at the
\* top of its loop
C26_Witness ==
    /\ last_read = "failed" /\ capture_pc = "read"
    /\ Len(written) > 0 /\ last_audio_time > 0

(***************************************************************************)
(* AudioProcessor::start                                                   *)
(***************************************************************************)
\* C27: when start() has failed there is no capture thread and no handle
\* left open or dangling, and every handle that was opened is closed exactly
\* once over the stop() or destruction that follows
C27_FailedStartLeavesNothing ==
    handle_log.start = "failed" =>
        /\ ~thread_running
        /\ capture_pc = "read"
        /\ pcm_handle = "null"
        /\ handle_log.closes <= handle_log.opens
        /\ main_pc \in {"destroyed", "crashed"} => handle_log.closes = handle_log.opens

(***************************************************************************)
(* The smoothing step                                                      *)
(***************************************************************************)
\* integral * prev + (1 - integral) * raw, rounded down
C28_Blend(prev, raw) ==
    IF prev >= raw
    THEN raw + MulDiv(prev - raw, factors.integral_factor, 2000)
    ELSE raw - MulDiv(raw - prev, factors.integral_factor, 2000) - 1

\* the rule of the step from prev to new with the raw level raw: blended is
\* the blend within one unit of rounding
C28_Rule(prev, raw, new) ==
    \E blended \in C28_Blend(prev, raw) .. (C28_Blend(prev, raw) + 1) :
        /\ blended >= prev => new = blended
        /\ blended < prev =>
              /\ new = Max(blended,
                           prev - MulDiv(prev - blended, factors.gravity_factor, 1000))
              /\ blended <= new /\ new <= prev
        /\ Abs(new - blended) <= Abs(prev - blended)

\* C28: one smoothing step blends the previous level and the raw level,
\* blended = integral * prev + (1 - integral) * raw; if blended >= prev the
\* new level is blended; if blended < prev the new level is
\* max(blended, prev - (prev - blended) * gravity), between blended and prev
\* inclusive; the level never moves away from blended
C28_SmoothingStep ==
    [][spectrum_calls' # spectrum_calls =>
           \E rms_left, rms_right \in RmsLevels :
               \A i \in Bands :
                   /\ C28_Rule(prev_left_spectrum[i],
                               BandLevelWith(rms_left, factors.scale_factor, i),
                               prev_left_spectrum'[i])
                   /\ C28_Rule(prev_right_spectrum[i],
                               BandLevelWith(rms_right, factors.scale_factor, i),
                               prev_right_spectrum'[i])]_vars

\* a level that has fallen by less than the blend asks for: it is above every
\* raw level of its band and below the level it started from, in the left
\* channel, and a level between rest and the largest raw level in the right
C28_Witness ==
    /\ spectrum_calls = 1
    /\ noise_reduction = NOISE_REDUCTION_DEFAULT
    /\ prev_left_spectrum[6] > BandLevelWith(MaxMagnitude * LEVEL_DEN, factors.scale_factor, 6)
    /\ prev_left_spectrum[6] < MaxLevel
    /\ prev_right_spectrum[6] > 0
    /\ prev_right_spectrum[6] < BandLevelWith(MaxMagnitude * LEVEL_DEN, factors.scale_factor, 6)

(***************************************************************************)
(* The MPD thread while suspended                                          *)
(***************************************************************************)
\* C30: while the MPD thread is in the polling loop of its sleep branch, conn
\* is null, and no step taken while it is there connects, fetches or
\* receives: conn and the record of fetches stay as they are
C30_SuspendedIsDisconnected ==
    /\ [](mpd_pc = "sleep_poll" => conn = "null")
    /\ [][mpd_pc = "sleep_poll" => UNCHANGED <<conn, fetched, last_fetch>>]_vars

\* the thread polls in its sleep branch after it has fetched a song, with the
\* service up and playing
C30_Witness ==
    /\ mpd_pc = "sleep_poll" /\ mpd_is_sleeping /\ ~shutdown_requested
    /\ fetched /\ service_up /\ service_song # NoSong

(***************************************************************************)
(* The MPD thread: sleep entry, wake, reconnect, idle                       *)
(***************************************************************************)
\* the calls that start a connection attempt, a fetch or an idle request
StartingCalls ==
    {"connect_ok", "connect_failed", "fetch", "fetch_failed", "idle", "idle_failed"}

ConnectCalls == {"connect_ok", "connect_failed", "connect_refused"}

\* C32: when the thread leaves the polling loop of its sleep branch with no
\* shutdown requested, conn is null, the next call it makes on the network
\* is connectMPD, it takes no round of the reconnect delay before that, and
\* connectMPD returns without an attempt only if it finds the sleep flag
\* set again or a shutdown requested
C32_WakeReconnects ==
    /\ [][(mpd_pc = "sleep_poll" /\ mpd_pc' # "sleep_poll" /\ ~shutdown_requested)
            => (net'.last = "woke" /\ conn' = "null")]_vars
    /\ [][(net.last = "woke" /\ net' # net) => net'.last \in ConnectCalls]_vars
    /\ [][net.last = "woke" => delay_i' = delay_i]_vars
    /\ [][Calls("connect_refused") => (shutdown_requested \/ mpd_is_sleeping)]_vars

\* awake again after a sleep that closed a connection, the thread is about
\* to connect to the service, which is up
C32_Witness ==
    /\ mpd_pc = "connect_try" /\ net.last = "woke" /\ fetched
    /\ ~mpd_is_sleeping /\ ~shutdown_requested /\ service_up

\* what updateCurrentSong can log
FetchCalls == {"fetch", "fetch_failed", "fetch_skipped"}

\* C33: after a successful connectMPD the thread goes straight into
\* updateCurrentSong: the first call on the new connection is the fetch of
\* the current song, before any idle request, and updateCurrentSong
\* returns without fetching only if it finds the sleep flag set or a
\* shutdown requested
C33_FetchFollowsConnect ==
    /\ [](net.last = "connect_ok" => mpd_pc \in {"update_lock", "update_fetch"})
    /\ [][(net.last = "connect_ok" /\ net' # net) => net'.last \in FetchCalls]_vars
    /\ [][Calls("fetch_skipped") => (shutdown_requested \/ mpd_is_sleeping)]_vars

\* the first song is fetched over the first connection
C33_Witness ==
    /\ mpd_pc = "update_lock_data" /\ net.last = "fetch" /\ conn = "open"
    /\ ~fetched /\ song # NoSong /\ ~net.idle_out

\* C34: after a connection attempt that failed the thread is in the
\* reconnect delay with no round taken yet; it makes no call before it has
\* left the delay; it leaves after all RECONNECT_DELAY_SEC * 10 rounds, or
\* before only if a shutdown is requested or the sleep flag is set when the
\* loop condition is tested; and it takes no further round when a shutdown
\* is requested or the sleep flag is set at that test
C34_ReconnectDelay ==
    /\ [][Calls("connect_failed") => (mpd_pc' = "delay" /\ delay_i' = 0)]_vars
    /\ [][(net.last = "connect_failed" /\ net' # net)
            => net'.last \in {"delayed", "delay_cut"}]_vars
    /\ [][Calls("delayed") => delay_i = RECONNECT_DELAY_ROUNDS]_vars
    /\ [][Calls("delay_cut") => (shutdown_requested \/ mpd_is_sleeping)]_vars
    /\ [][(mpd_pc = "delay" /\ (shutdown_requested \/ mpd_is_sleeping))
            => delay_i' <= delay_i]_vars
    /\ [](mpd_pc = "delay" => (delay_i <= RECONNECT_DELAY_ROUNDS /\ conn = "null"))

\* the thread is about to connect again after a failed attempt and the
\* whole delay, to a service that has come up in between
C34_Witness ==
    /\ mpd_pc = "connect_try" /\ net.last = "delayed" /\ conn = "null"
    /\ ~mpd_is_sleeping /\ ~shutdown_requested /\ service_up

\* C35: a player event that the service has reported on the connection is
\* taken off it, with the client awake, not shutting down and the
\* connection kept, only by the step that goes on to updateCurrentSong;
\* this includes the event that arrives after select() has timed out and
\* before the client sends noidle
C35_EventLeadsToFetch ==
    [][(event_pending /\ ~event_pending' /\ conn' = "open"
        /\ ~mpd_is_sleeping /\ ~shutdown_requested) => mpd_pc' = "update_lock"]_vars

ErrorCalls == {"fetch_failed", "idle_failed", "fd_failed", "select_failed", "recv_failed"}

\* C37: the step in which one of these errors shows leaves conn null, and
\* the next call of the thread on the network, unless it has slept in
\* between, is connectMPD
C37_ErrorDropsConnection ==
    /\ [][\A c \in ErrorCalls : Calls(c) => conn' = "null"]_vars
    /\ [][(net.last \in ErrorCalls /\ net' # net)
            => net'.last \in ConnectCalls \cup {"woke"}]_vars

\* what the thread can log without a call on the network: a call it did not
\* make, the end of a wait, the loss of the descriptor
QuietCalls ==
    {"connect_refused", "fetch_skipped", "delayed", "delay_cut", "woke",
     "select_failed", "fd_failed"}

MpdInConnSection ==
    mpd_pc \in {"connect_try", "update_fetch", "update_lock_data", "update_store",
                "update_format", "update_return", "recv"}

\* the controlling thread is inside one: isConnected, the cancel of stop()
MainInConnSection ==
    mpdmain_pc \in {"isconnected_read", "isconnected_return", "stop_cancel"}

\* C39: the two threads are never inside blocks guarded by conn_mutex at
\* the same time, a thread inside one holds the mutex, and the guard that
\* is destroyed at the end of the block that receives the idle result
\* releases a mutex its thread holds
C39_ConnMutexExcludes ==
    /\ ~(MpdInConnSection /\ MainInConnSection)
    /\ MainInConnSection => conn_mutex = "main"
    /\ mpd_pc = "scope_exit" => conn_mutex = "mpd"


(***************************************************************************)
(* The silence timer between the capture thread and the main thread.       *)
(***************************************************************************)
NextRace ==
    \/ CaptureSenseBegin
    \/ CaptureSenseEnd
    \/ CheckForAudioBegin
    \/ CheckForAudioEnd
    \/ Tick

SpecRace == InitStarted /\ [][NextRace]_vars

\* C40: every variable that more than one thread touches is touched under a
\* mutex or atomically; in particular the capture thread is never inside its
\* store of last_audio_time while the main thread is inside the load of it in
\* checkForAudio
C40_TimerAccessesExclude == ~(time_access.writer /\ time_access.reader)

====
